---------------------------- MODULE Spec2Model ----------------------------
(***************************************************************************)
(* Retrieval-and-caching subsystem of the Zettelkasten knowledge base:     *)
(* SemanticCache, HybridLRUMRUCache and KnowledgeBase.getMsgContext.       *)
(*                                                                         *)
(* Conventions.                                                            *)
(*  - A JavaScript Map is a sequence of entries in insertion order; set on *)
(*    a present key replaces the value in place, delete removes it.        *)
(*  - Numbers are exact rationals <<numerator, denominator>>; vectors are  *)
(*    integer vectors with an integer norm, so cosine values are exact.    *)
(*  - Date.now() is the variable now (milliseconds); one synchronous       *)
(*    section reads one clock value, the clock advances between sections.  *)
(*  - null and undefined are the records Null and Undefined.               *)
(***************************************************************************)
EXTENDS Integers, Sequences, FiniteSets, TLC

(***************************************************************************)
(* Bounds of the model.                                                    *)
(***************************************************************************)
MaxCap == 2
MaxTicks == 2
MaxOps == 3
MaxHybOps == 5

(***************************************************************************)
(* JavaScript values.                                                      *)
(***************************************************************************)
Null == [null |-> TRUE]
Undefined == [undefined |-> TRUE]
Truthy(v) == v # Null /\ v # Undefined

(***************************************************************************)
(* Exact rational arithmetic (the code computes in doubles).               *)
(***************************************************************************)
Abs(x) == IF x < 0 THEN -x ELSE x

RECURSIVE GCD(_, _)
GCD(a, b) == IF b = 0 THEN a ELSE GCD(b, a % b)

RatNorm(n, d) ==
  LET g == GCD(Abs(n), Abs(d))
      s == IF d < 0 THEN -1 ELSE 1
  IN <<(s * n) \div g, (s * d) \div g>>

RatInt(n) == <<n, 1>>
RatLcm(a, b) == (a[2] \div GCD(a[2], b[2])) * b[2]
RatSub(a, b) ==
  LET l == RatLcm(a, b)
  IN RatNorm(a[1] * (l \div a[2]) - b[1] * (l \div b[2]), l)
RatAdd(a, b) ==
  LET l == RatLcm(a, b)
  IN RatNorm(a[1] * (l \div a[2]) + b[1] * (l \div b[2]), l)
RatMul(a, b) ==
  LET x == RatNorm(a[1], b[2])
      y == RatNorm(b[1], a[2])
  IN RatNorm(x[1] * y[1], x[2] * y[2])
RatDiv(a, b) == RatMul(a, RatNorm(b[2], b[1]))
RatLess(a, b) ==
  LET l == RatLcm(a, b)
  IN a[1] * (l \div a[2]) < b[1] * (l \div b[2])
RatSign(a) == IF a[1] < 0 THEN -1 ELSE IF a[1] > 0 THEN 1 ELSE 0

\* Math.sqrt on the perfect squares the model's vectors produce.
Sqrt(n) == CHOOSE r \in 0..n : r * r = n

(***************************************************************************)
(* Map<string, V> as a sequence of entries carrying their key.             *)
(***************************************************************************)
MapHas(m, k) == \E i \in 1..Len(m) : m[i].key = k
MapIndex(m, k) == CHOOSE i \in 1..Len(m) : m[i].key = k
MapGet(m, k) == IF MapHas(m, k) THEN m[MapIndex(m, k)] ELSE Undefined
MapSet(m, k, v) ==
  IF MapHas(m, k) THEN [m EXCEPT ![MapIndex(m, k)] = v] ELSE Append(m, v)
MapDelete(m, k) == SelectSeq(m, LAMBDA e : e.key # k)
MapKeys(m) == {m[i].key : i \in 1..Len(m)}

(***************************************************************************)
(* class SemanticCache<T>                                                  *)
(***************************************************************************)
DayMs == 24 * 60 * 60 * 1000

\* The vectors the embedding provider answers with in the model.
Vectors == {<<1, 0>>, <<0, 1>>, <<3, 4>>}
VECTOR_DIMENSION == Len(CHOOSE v \in Vectors : TRUE)
ZeroVector == [i \in 1..VECTOR_DIMENSION |-> 0]

RECURSIVE SumTo(_, _)
SumTo(f, n) == IF n = 0 THEN 0 ELSE f[n] + SumTo(f, n - 1)

cosineSimilarityNoGuard(a, b) ==
  LET dotProduct == SumTo([i \in 1..Len(a) |-> a[i] * b[i]], Len(a))
      normA == Sqrt(SumTo([i \in 1..Len(a) |-> a[i] * a[i]], Len(a)))
      normB == Sqrt(SumTo([i \in 1..Len(a) |-> b[i] * b[i]], Len(a)))
  IN IF normA = 0 \/ normB = 0 THEN RatInt(1)
     ELSE RatNorm(dotProduct, normA * normB)

cosineSimilarity(a, b) ==
  LET dotProduct == SumTo([i \in 1..Len(a) |-> a[i] * b[i]], Len(a))
      normA == Sqrt(SumTo([i \in 1..Len(a) |-> a[i] * a[i]], Len(a)))
      normB == Sqrt(SumTo([i \in 1..Len(a) |-> b[i] * b[i]], Len(a)))
  IN IF normA = 0 \/ normB = 0 THEN RatInt(0)
     ELSE RatNorm(dotProduct, normA * normB)

\* hybridScore of one entry inside evictLeastSimilar's loop.
hybridScore(newEmbedding, entry, t) ==
  LET similarity == cosineSimilarity(newEmbedding, entry.embedding)
      recencyScore == RatDiv(RatInt(t - entry.lastAccessed), RatInt(DayMs))
  IN RatSub(similarity, RatMul(recencyScore, <<1, 5>>))

RECURSIVE LeastSimilarScan(_, _, _, _, _, _)
LeastSimilarScan(entries, i, newEmbedding, t, leastSimilarKey, lowestSimilarity) ==
  IF i > Len(entries) THEN leastSimilarKey
  ELSE LET score == hybridScore(newEmbedding, entries[i], t)
       IN IF RatLess(score, lowestSimilarity)
          THEN LeastSimilarScan(entries, i + 1, newEmbedding, t,
                                entries[i].key, score)
          ELSE LeastSimilarScan(entries, i + 1, newEmbedding, t,
                                leastSimilarKey, lowestSimilarity)

\* The mutant: the comparison of the scan is <= instead of <.
RECURSIVE LeastSimilarScanLe(_, _, _, _, _, _)
LeastSimilarScanLe(entries, i, newEmbedding, t, leastSimilarKey, lowestSimilarity) ==
  IF i > Len(entries) THEN leastSimilarKey
  ELSE LET score == hybridScore(newEmbedding, entries[i], t)
       IN IF ~RatLess(lowestSimilarity, score)
          THEN LeastSimilarScanLe(entries, i + 1, newEmbedding, t,
                                  entries[i].key, score)
          ELSE LeastSimilarScanLe(entries, i + 1, newEmbedding, t,
                                  leastSimilarKey, lowestSimilarity)

leastSimilarKeyLe(cache, newEmbedding, t) ==
  LeastSimilarScanLe(cache, 1, newEmbedding, t, cache[1].key, RatInt(1))

\* The mutant: the scan starts from no key instead of entries[0].key.
leastSimilarKeyUnset(cache, newEmbedding, t) ==
  LeastSimilarScan(cache, 1, newEmbedding, t, "", RatInt(1))

\* The key evictLeastSimilar deletes from a non-empty cache.
leastSimilarKey(cache, newEmbedding, t) ==
  LeastSimilarScan(cache, 1, newEmbedding, t, cache[1].key, RatInt(1))

evictLeastSimilar(cache, newEmbedding, t) ==
  IF Len(cache) = 0 THEN cache
  ELSE MapDelete(cache, leastSimilarKey(cache, newEmbedding, t))

SemEntry(key, data, embedding, t) ==
  [key |-> key, data |-> data, timestamp |-> t, lastAccessed |-> t,
   embedding |-> embedding]

\* this.cache.set(key, {...}) at the end of SemanticCache.set. The mutant
\* first: a set that stores nothing.
SemInsertNothing(cache, key, data, embedding, t) == cache

SemInsert(cache, key, data, embedding, t) ==
  MapSet(cache, key, SemEntry(key, data, embedding, t))

\* A mutant of get: the entry read is taken out of the cache.
SemGetCacheTake(cache, key, t) ==
  IF MapHas(cache, key) THEN MapDelete(cache, key) ELSE cache

\* The mutant of get: every entry is touched.
SemGetCacheTouchAll(cache, key, t) ==
  [i \in 1..Len(cache) |-> [cache[i] EXCEPT !.lastAccessed = t]]

\* SemanticCache.get: the cache after the call, and the value returned.
SemGetCache(cache, key, t) ==
  IF MapHas(cache, key)
  THEN [cache EXCEPT ![MapIndex(cache, key)].lastAccessed = t]
  ELSE cache
\* The mutant of the returned value: null even when the key is present.
SemGetValueNull(cache, key) == Null

SemGetValue(cache, key) ==
  IF MapHas(cache, key) THEN MapGet(cache, key).data ELSE Null

\* SemanticCache.getStats. The mutant first: the rate is taken over the
\* number of entries.
SemGetStatsOverSize(cache, hits, misses) ==
  [hits |-> hits, misses |-> misses, size |-> Len(cache),
   hitRate |-> IF Len(cache) = 0 THEN RatInt(0) ELSE RatNorm(hits, Len(cache))]

SemGetStats(cache, hits, misses) ==
  LET total == hits + misses
  IN [hits |-> hits, misses |-> misses, size |-> Len(cache),
      hitRate |-> IF total = 0 THEN RatInt(0) ELSE RatNorm(hits, total)]

(***************************************************************************)
(* class HybridLRUMRUCache<T>                                              *)
(***************************************************************************)
Max2(x, y) == IF x > y THEN x ELSE y

\* One side's score in the comparator of evict's sort, normalised against
\* the compared pair (maxRecency > 0).
PairScore(count, recency, maxFreq, maxRecency) ==
  LET normalizedRecency == RatSub(RatInt(1), RatNorm(recency, maxRecency))
      normalizedFreq == RatNorm(count, maxFreq)
  IN RatAdd(RatMul(normalizedFreq, <<3, 5>>),
            RatMul(normalizedRecency, <<2, 5>>))

\* The comparator (a, b) => aScore - bScore as the sort reads it: its sign.
\* When both ages are 0 the scores are NaN (0 / 0), which the sort reads
\* as 0.
EvictCompare(a, b, t) ==
  LET aRecency == t - a.lastAccessed
      bRecency == t - b.lastAccessed
      maxRecency == Max2(aRecency, bRecency)
      maxFreq == Max2(a.accessCount, b.accessCount)
  IN IF maxRecency = 0 THEN 0
     ELSE RatSign(RatSub(
            PairScore(a.accessCount, aRecency, maxFreq, maxRecency),
            PairScore(b.accessCount, bRecency, maxFreq, maxRecency)))

\* Array.prototype.sort of Node.js (V8's TimSort) on an array shorter than
\* 64 elements: the leading run is found (and reversed when strictly
\* descending), the rest is inserted by binary insertion.
Reverse(s) == [i \in 1..Len(s) |-> s[Len(s) + 1 - i]]

RECURSIVE RunLength(_, _, _, _)
RunLength(arr, idx, isDescending, t) ==
  IF idx > Len(arr) THEN idx - 1
  ELSE LET order == EvictCompare(arr[idx], arr[idx - 1], t)
       IN IF (isDescending /\ order >= 0) \/ (~isDescending /\ order < 0)
          THEN idx - 1
          ELSE RunLength(arr, idx + 1, isDescending, t)

CountAndMakeRun(arr, t) ==
  IF Len(arr) < 2 THEN <<arr, Len(arr)>>
  ELSE LET isDescending == EvictCompare(arr[2], arr[1], t) < 0
           n == RunLength(arr, 3, isDescending, t)
       IN IF isDescending
          THEN <<Reverse(SubSeq(arr, 1, n)) \o SubSeq(arr, n + 1, Len(arr)), n>>
          ELSE <<arr, n>>

RECURSIVE InsertionPoint(_, _, _, _, _)
InsertionPoint(arr, pivot, left, right, t) ==
  IF left >= right THEN left
  ELSE LET mid == left + ((right - left) \div 2)
       IN IF EvictCompare(pivot, arr[mid + 1], t) < 0
          THEN InsertionPoint(arr, pivot, left, mid, t)
          ELSE InsertionPoint(arr, pivot, mid + 1, right, t)

RECURSIVE BinaryInsertionSort(_, _, _)
BinaryInsertionSort(arr, start, t) ==
  IF start >= Len(arr) THEN arr
  ELSE LET pivot == arr[start + 1]
           left == InsertionPoint(arr, pivot, 0, start, t)
           moved == SubSeq(arr, 1, left) \o <<pivot>>
                    \o SubSeq(arr, left + 1, start)
                    \o SubSeq(arr, start + 2, Len(arr))
       IN BinaryInsertionSort(moved, start + 1, t)

EvictSort(entries, t) ==
  IF Len(entries) < 2 THEN entries
  ELSE LET run == CountAndMakeRun(entries, t)
       IN BinaryInsertionSort(run[1], run[2], t)

\* The mutant: the last entry of the sorted array is removed.
evictLast(cache, t) ==
  IF Len(cache) = 0 THEN cache
  ELSE MapDelete(cache, EvictSort(cache, t)[Len(cache)].key)

\* The mutant: evict finds the cache full and removes nothing.
evictNothing(cache, t) == cache

evict(cache, t) ==
  IF Len(cache) = 0 THEN cache
  ELSE MapDelete(cache, EvictSort(cache, t)[1].key)

HybEntry(key, data, t) ==
  [key |-> key, data |-> data, timestamp |-> t, accessCount |-> 1,
   lastAccessed |-> t]

\* HybridLRUMRUCache.set
HybSet(cache, maxSize, key, data, t) ==
  LET c == IF Len(cache) >= maxSize THEN evict(cache, t) ELSE cache
  IN MapSet(c, key, HybEntry(key, data, t))

\* The mutant of get: the hit is not counted on the entry.
HybGetCacheNoCount(cache, key, t) ==
  IF MapHas(cache, key)
  THEN [cache EXCEPT ![MapIndex(cache, key)].lastAccessed = t]
  ELSE cache

\* HybridLRUMRUCache.get: the cache after the call, and the value returned.
HybGetCache(cache, key, t) ==
  IF MapHas(cache, key)
  THEN LET i == MapIndex(cache, key)
       IN [cache EXCEPT ![i].accessCount = @ + 1, ![i].lastAccessed = t]
  ELSE cache
\* The mutant of the returned value: null even when the key is present.
HybGetValueNull(cache, key) == Null

HybGetValue(cache, key) ==
  IF MapHas(cache, key) THEN MapGet(cache, key).data ELSE Null

\* HybridLRUMRUCache.getStats
HybGetStats(cache, hits, misses) ==
  LET total == hits + misses
  IN [hits |-> hits, misses |-> misses, size |-> Len(cache),
      hitRate |-> IF total = 0 THEN RatInt(0) ELSE RatNorm(hits, total)]

(***************************************************************************)
(* State.                                                                  *)
(***************************************************************************)
VARIABLES
  now,          \* Date.now()
  ticks,        \* how often the clock has advanced
  ops,          \* operations started so far
  semCache,     \* SemanticCache.cache
  semMaxSize,   \* SemanticCache.maxSize
  semHits,      \* SemanticCache.cacheHits
  semMisses,    \* SemanticCache.cacheMisses
  hybCache,     \* HybridLRUMRUCache.cache
  hybMaxSize,   \* HybridLRUMRUCache.maxSize
  hybHits,      \* HybridLRUMRUCache.cacheHits
  hybMisses,    \* HybridLRUMRUCache.cacheMisses
  calls,        \* the SemanticCache.set calls in flight, by slot
  maxInFlight,  \* how many calls the caller lets overlap
  driven,       \* the cache this run's calls are made on
  pineconeIndex, \* KnowledgeBase.pineconeIndex: "undefined" or "Index"
  initPc,       \* where the constructor's initPineconeClient call stands
  transport,    \* the SSE server's module-level "let transport"
  posts,        \* history: the POSTs to /get-msg-context, in order
  lastOp,       \* history: the last cache call that completed
  vecStore,     \* vector store: the ranked hits it holds per (user, query)
  graphStore,   \* graph store: the session records it holds
  req,          \* the getMsgContext request in progress or just finished
  prev          \* history: the request that finished before req

cacheVars == <<semCache, semMaxSize, semHits, semMisses,
               hybCache, hybMaxSize, hybHits, hybMisses>>
kbVars == <<vecStore, graphStore, req, prev>>
initVars == <<pineconeIndex, initPc>>
serverVars == <<transport, posts>>
vars == <<now, ticks, ops, cacheVars, calls, maxInFlight, driven,
          initVars, serverVars,
          lastOp,
          kbVars>>

\* "let transport: SSEServerTransport" before the first assignment.
NoTransport == [client |-> "none", connection |-> 0]

\* The clock advances by a day at a time.
TickMs == DayMs

Keys == {"k1", "k2", "k3"}

\* Texts, as sequences of UTF-16 code units: "Aa", "BB" and "C".
Texts == {<<65, 97>>, <<66, 66>>, <<67>>}

\* The embedding provider maps a text to its vector.
TextEmbedding(text) ==
  CASE text = <<65, 97>> -> <<1, 0>>
    [] text = <<66, 66>> -> <<0, 1>>
    [] OTHER -> <<3, 4>>
Data == {[payload |-> "d1"], [payload |-> "d2"]}

\* What the embedding provider does on one request: a vector, or an error.
EmbedError == <<>>
EmbedResponses(text) == {TextEmbedding(text), EmbedError}

\* The mutant of generateEmbedding: no substitution on failure.
SemGenerateEmbeddingKeep(response) == response

\* SemanticCache.generateEmbedding: the provider's vector, a zero vector of
\* VECTOR_DIMENSION when the provider fails.
SemGenerateEmbedding(response) ==
  IF response = EmbedError THEN ZeroVector ELSE response

NCalls == 2
Calls == 1..NCalls
IdleCall == [pc |-> "idle"]
InFlight == Cardinality({c \in Calls : calls[c].pc # "idle"})
LowestIdle(c) ==
  /\ calls[c].pc = "idle"
  /\ \A d \in Calls : d < c => calls[d].pc # "idle"

InitCaches ==
  /\ now = 0
  /\ ticks = 0
  /\ ops = 0
  /\ semCache = <<>>
  /\ semMaxSize \in 0..MaxCap
  /\ semHits = 0
  /\ semMisses = 0
  /\ hybCache = <<>>
  /\ hybMaxSize = semMaxSize
  /\ hybHits = 0
  /\ hybMisses = 0
  /\ calls = [c \in Calls |-> IdleCall]
  /\ lastOp = [name |-> "none"]
  /\ vecStore = <<>>
  /\ graphStore = <<>>
  /\ req = [pc |-> "idle"]
  /\ prev = [pc |-> "idle"]

(***************************************************************************)
(* Operations on the two caches.                                           *)
(***************************************************************************)
Tick ==
  /\ ticks < MaxTicks
  /\ now' = now + TickMs
  /\ ticks' = ticks + 1
  /\ UNCHANGED <<ops, cacheVars, calls, maxInFlight, driven,
                 initVars, serverVars,
                 lastOp, kbVars>>

\* SemanticCache.set is called and suspends in generateEmbedding.
SemSetCall(c, key, data, queryText) ==
  /\ driven = "semantic"
  /\ ops < MaxOps
  /\ InFlight < maxInFlight
  /\ LowestIdle(c)
  /\ calls' = [calls EXCEPT ![c] = [pc |-> "embedding", key |-> key,
                                    data |-> data, queryText |-> queryText]]
  /\ ops' = ops + 1
  /\ UNCHANGED <<now, ticks, cacheVars, maxInFlight, driven,
                 initVars, serverVars,
                 lastOp, kbVars>>

\* The embedding arrives: the capacity check, and either the eviction
\* (the call then suspends at "await this.evictLeastSimilar") or the insert.
SemSetEmbedded(c, response) ==
  /\ calls[c].pc = "embedding"
  /\ response \in EmbedResponses(calls[c].queryText)
  /\ LET embedding == SemGenerateEmbedding(response)
     IN IF Len(semCache) >= semMaxSize
        THEN /\ semCache' = evictLeastSimilar(semCache, embedding, now)
             /\ calls' = [calls EXCEPT ![c] =
                            [pc |-> "evicted", key |-> calls[c].key,
                             data |-> calls[c].data, embedding |-> embedding,
                             embedFailed |-> response = EmbedError,
                             victims |-> MapKeys(semCache) \ MapKeys(semCache')]]
             /\ lastOp' = [name |-> "semEvict", key |-> calls[c].key,
                           embedFailed |-> response = EmbedError,
                           victims |-> MapKeys(semCache) \ MapKeys(semCache')]
        ELSE /\ semCache' = SemInsert(semCache, calls[c].key, calls[c].data,
                                      embedding, now)
             /\ calls' = [calls EXCEPT ![c] = IdleCall]
             /\ lastOp' = [name |-> "semSet", key |-> calls[c].key,
                           data |-> calls[c].data,
                           embedFailed |-> response = EmbedError,
                           victims |-> {}]
  /\ UNCHANGED <<now, ticks, ops, semMaxSize, semHits, semMisses,
                 hybCache, hybMaxSize, hybHits, hybMisses, maxInFlight,
                 driven, initVars, serverVars, kbVars>>

\* The call resumes after the awaited eviction and inserts its entry.
SemSetInsert(c) ==
  /\ calls[c].pc = "evicted"
  /\ semCache' = SemInsert(semCache, calls[c].key, calls[c].data,
                           calls[c].embedding, now)
  /\ calls' = [calls EXCEPT ![c] = IdleCall]
  /\ lastOp' = [name |-> "semSet", key |-> calls[c].key,
                data |-> calls[c].data,
                embedFailed |-> calls[c].embedFailed,
                victims |-> calls[c].victims]
  /\ UNCHANGED <<now, ticks, ops, semMaxSize, semHits, semMisses,
                 hybCache, hybMaxSize, hybHits, hybMisses, maxInFlight,
                 driven, initVars, serverVars, kbVars>>

\* SemanticCache.get
SemGetOp(key) ==
  /\ driven = "semantic"
  /\ ops < MaxOps
  /\ InFlight < maxInFlight
  /\ semCache' = SemGetCache(semCache, key, now)
  /\ IF MapHas(semCache, key)
     THEN semHits' = semHits + 1 /\ UNCHANGED semMisses
     ELSE semMisses' = semMisses + 1 /\ UNCHANGED semHits
  /\ ops' = ops + 1
  /\ lastOp' = [name |-> "semGet", key |-> key,
                hit |-> MapHas(semCache, key),
                value |-> SemGetValue(semCache, key)]
  /\ UNCHANGED <<now, ticks, semMaxSize,
                 hybCache, hybMaxSize, hybHits, hybMisses, calls, maxInFlight,
                 driven, initVars, serverVars, kbVars>>

\* HybridLRUMRUCache.set
HybSetOp(key, data) ==
  /\ driven = "hybrid"
  /\ ops < MaxHybOps
  /\ hybCache' = HybSet(hybCache, hybMaxSize, key, data, now)
  /\ ops' = ops + 1
  /\ lastOp' = [name |-> "hybSet", key |-> key, data |-> data,
                victims |-> MapKeys(hybCache) \ MapKeys(hybCache')]
  /\ UNCHANGED <<now, ticks, semCache, semMaxSize, semHits, semMisses,
                 hybMaxSize, hybHits, hybMisses, calls, maxInFlight, driven,
                 initVars, serverVars, kbVars>>

\* HybridLRUMRUCache.get
HybGetOp(key) ==
  /\ driven = "hybrid"
  /\ ops < MaxHybOps
  /\ hybCache' = HybGetCache(hybCache, key, now)
  /\ IF MapHas(hybCache, key)
     THEN hybHits' = hybHits + 1 /\ UNCHANGED hybMisses
     ELSE hybMisses' = hybMisses + 1 /\ UNCHANGED hybHits
  /\ ops' = ops + 1
  /\ lastOp' = [name |-> "hybGet", key |-> key,
                hit |-> MapHas(hybCache, key),
                value |-> HybGetValue(hybCache, key)]
  /\ UNCHANGED <<now, ticks, semCache, semMaxSize, semHits, semMisses,
                 hybMaxSize, calls, maxInFlight, driven,
                 initVars, serverVars, kbVars>>

\* SemanticCache.getStats
SemGetStatsOp ==
  /\ driven = "semantic"
  /\ InFlight < maxInFlight
  /\ lastOp' = [name |-> "semStats",
                stats |-> SemGetStats(semCache, semHits, semMisses)]
  /\ UNCHANGED <<now, ticks, ops, cacheVars, calls, maxInFlight, driven,
                 initVars, serverVars, kbVars>>

\* HybridLRUMRUCache.getStats
HybGetStatsOp ==
  /\ driven = "hybrid"
  /\ lastOp' = [name |-> "hybStats",
                stats |-> HybGetStats(hybCache, hybHits, hybMisses)]
  /\ UNCHANGED <<now, ticks, ops, cacheVars, calls, maxInFlight, driven,
                 initVars, serverVars, kbVars>>

SemSetStep ==
  \/ \E c \in Calls, key \in Keys, data \in Data, queryText \in Texts :
       SemSetCall(c, key, data, queryText)
  \/ \E c \in Calls, response \in Vectors \cup {EmbedError} :
       SemSetEmbedded(c, response)
  \/ \E c \in Calls : SemSetInsert(c)

(***************************************************************************)
(* SpecSeq: get and set calls on both caches, each call completing before  *)
(* the next one starts.                                                    *)
(***************************************************************************)
InitSeq ==
  /\ InitCaches
  /\ maxInFlight = 1
  /\ driven \in {"semantic", "hybrid"}
  /\ pineconeIndex = "Index"
  /\ initPc = "done"
  /\ transport = NoTransport
  /\ posts = <<>>

NextSeq ==
  \/ Tick
  \/ SemSetStep
  \/ \E key \in Keys : SemGetOp(key)
  \/ \E key \in Keys, data \in Data : HybSetOp(key, data)
  \/ \E key \in Keys : HybGetOp(key)
  \/ SemGetStatsOp
  \/ HybGetStatsOp

SpecSeq == InitSeq /\ [][NextSeq]_vars

(***************************************************************************)
(* SpecConc: SemanticCache.set calls in flight together, interleaved at    *)
(* their two awaits.                                                       *)
(***************************************************************************)
InitConc ==
  /\ InitCaches
  /\ maxInFlight = NCalls
  /\ driven = "semantic"
  /\ pineconeIndex = "Index"
  /\ initPc = "done"
  /\ transport = NoTransport
  /\ posts = <<>>

NextConc ==
  \/ Tick
  \/ SemSetStep
  \/ \E key \in Keys : SemGetOp(key)

SpecConc == InitConc /\ [][NextConc]_vars

(***************************************************************************)
(* SpecWarm: one more call on a full cache that has been in use: its       *)
(* entries carry access counts and access times that calls before it can   *)
(* have left.                                                              *)
(***************************************************************************)
MaxWarmCount == 3
MaxWarmAge == 3

WarmKey(i) == <<"k1", "k2", "k3", "k4", "k5">>[i]
WarmKeys == {WarmKey(i) : i \in 1..(MaxCap + 2)}
WarmTimes == {a * TickMs : a \in 0..MaxWarmAge}

\* An entry of the HybridLRUMRUCache: set at timestamp (at time 0 or in
\* the millisecond of its last read) and read accessCount - 1 times, the
\* last time at lastAccessed.
WarmHybEntries(key) ==
  {e \in {[key |-> key, data |-> d, timestamp |-> s, accessCount |-> n,
           lastAccessed |-> t] :
            d \in {CHOOSE x \in Data : TRUE}, n \in 1..MaxWarmCount,
            t \in WarmTimes, s \in WarmTimes} :
     /\ e.timestamp \in {0, e.lastAccessed}
     /\ e.accessCount = 1 => e.timestamp = e.lastAccessed}

\* The keys of a full cache were first set in map order while the cache
\* was not full (a set of a present key keeps its place and, the cache
\* not being full, evicts nothing), the last key last.
WarmOrder(cache) ==
  \A i \in 1..Len(cache) : cache[i].timestamp <= cache[Len(cache)].timestamp

\* An entry of the SemanticCache set at time 0 (the embedding call having
\* answered or failed) and last read at lastAccessed.
WarmSemEntries(key) ==
  {[key |-> key, data |-> d, timestamp |-> 0, lastAccessed |-> t,
    embedding |-> e] :
     d \in {CHOOSE x \in Data : TRUE}, t \in WarmTimes,
     e \in Vectors \cup {ZeroVector}}

WarmEntries(kind, key) ==
  IF kind = "hybrid" THEN WarmHybEntries(key) ELSE WarmSemEntries(key)

RECURSIVE WarmCaches(_, _)
WarmCaches(kind, n) ==
  IF n = 0 THEN {<<>>}
  ELSE {Append(c, e) : c \in WarmCaches(kind, n - 1),
                       e \in WarmEntries(kind, WarmKey(n))}

RECURSIVE WarmHits(_, _)
WarmHits(cache, i) ==
  IF i > Len(cache) THEN 0
  ELSE (cache[i].accessCount - 1) + WarmHits(cache, i + 1)

InitWarm ==
  /\ now = MaxWarmAge * TickMs
  /\ ticks = MaxWarmAge
  /\ driven \in {"semantic", "hybrid"}
  /\ IF driven = "hybrid"
     THEN /\ hybCache \in {c \in UNION {WarmCaches("hybrid", n) :
                                          n \in 1..(MaxCap + 1)} :
                             WarmOrder(c)}
          /\ hybMaxSize = Len(hybCache)
          /\ hybHits = WarmHits(hybCache, 1)
          /\ ops = MaxHybOps - 1
          /\ semCache = <<>>
          /\ semMaxSize = MaxCap
          /\ semHits = 0
     ELSE /\ semCache \in UNION {WarmCaches("semantic", n) :
                                    n \in 1..MaxCap}
          /\ semMaxSize = Len(semCache)
          /\ semHits = Cardinality({i \in 1..Len(semCache) :
                                      semCache[i].lastAccessed > 0})
          /\ ops = MaxOps - 1
          /\ hybCache = <<>>
          /\ hybMaxSize = MaxCap
          /\ hybHits = 0
  /\ semMisses = 0
  /\ hybMisses = 0
  /\ calls = [c \in Calls |-> IdleCall]
  /\ maxInFlight = 1
  /\ lastOp = [name |-> "none"]
  /\ vecStore = <<>>
  /\ graphStore = <<>>
  /\ req = [pc |-> "idle"]
  /\ prev = [pc |-> "idle"]
  /\ pineconeIndex = "Index"
  /\ initPc = "done"
  /\ transport = NoTransport
  /\ posts = <<>>

NextWarm ==
  \/ \E c \in Calls, key \in WarmKeys, data \in Data, queryText \in Texts :
       SemSetCall(c, key, data, queryText)
  \/ \E c \in Calls, response \in Vectors \cup {EmbedError} :
       SemSetEmbedded(c, response)
  \/ \E c \in Calls : SemSetInsert(c)
  \/ \E key \in WarmKeys : SemGetOp(key)
  \/ \E key \in WarmKeys, data \in Data : HybSetOp(key, data)
  \/ \E key \in WarmKeys : HybGetOp(key)
  \/ SemGetStatsOp
  \/ HybGetStatsOp

SpecWarm == InitWarm /\ [][NextWarm]_vars

(***************************************************************************)
(* class KnowledgeBase: getMsgContext                                      *)
(***************************************************************************)
MaxReqs == 2
MaxSessOps == 3
MaxInitReqs == 2
MaxTopK == 2
MaxRecords == 2

\* hashString: hash = ((hash << 5) - hash) + charCode, wrapped to 32 bits
\* by "hash |= 0" after every character. The 32-bit value is kept as two
\* unsigned 16-bit halves <<high, low>>.
Half == 2 ^ 16

RECURSIVE Hash32(_, _, _)
Hash32(str, i, hash) ==
  IF i > Len(str) THEN hash
  ELSE LET low == hash[2] * 31 + str[i]
           high == hash[1] * 31 + (low \div Half)
       IN Hash32(str, i + 1, <<high % Half, low % Half>>)

HexDigit(d) ==
  <<"0", "1", "2", "3", "4", "5", "6", "7", "8", "9",
    "a", "b", "c", "d", "e", "f">>[d + 1]

\* The four hexadecimal digits of one half.
HalfDigits(h) ==
  <<HexDigit(h \div 4096), HexDigit((h \div 256) % 16),
    HexDigit((h \div 16) % 16), HexDigit(h % 16)>>

RECURSIVE StripZeros(_)
StripZeros(digits) ==
  IF Len(digits) > 1 /\ digits[1] = "0" THEN StripZeros(Tail(digits))
  ELSE digits

\* Number.prototype.toString(16) of the signed 32-bit value: a minus sign
\* for a negative value, then the digits of its magnitude.
ToHexString(hash) ==
  LET negative == hash[1] >= Half \div 2
      magnitude ==
        IF ~negative THEN hash
        ELSE <<(Half - 1 - hash[1]) + (IF hash[2] = 0 THEN 1 ELSE 0),
               (Half - hash[2]) % Half>>
      digits == StripZeros(HalfDigits(magnitude[1]) \o HalfDigits(magnitude[2]))
  IN IF negative THEN <<"-">> \o digits ELSE digits

hashString(str) == ToHexString(Hash32(str, 1, <<0, 0>>))

\* The mutant of the key: it also carries the number of requests so far.
CacheKeyCounted(userId, queryText, topK) ==
  <<"context", userId, hashString(queryText), topK, ops>>

\* `context_${userId}_${this.hashString(queryText)}_${topK}`, kept as the
\* tuple of its parts.
CacheKey(userId, queryText, topK) ==
  <<"context", userId, hashString(queryText), topK>>

\* The external stores. The vector store holds upserted records
\* {id, values, metadata: {user_id, session_id}}; the graph store holds
\* session records, each with its message nodes in timestamp order.
VecRecord(id, text, sessionId) ==
  [id |-> id, values |-> TextEmbedding(text),
   metadata |-> [user_id |-> "u1", session_id |-> sessionId]]
VecRecords ==
  {VecRecord("v1", <<65, 97>>, "s1"), VecRecord("v2", <<66, 66>>, "s1"),
   VecRecord("v3", <<67>>, "s2")}

\* A string property value; an absent one is Null.
Text(chars) == [text |-> chars]

Node(vectorId, content, role, timestamp, metadata) ==
  [vector_id |-> vectorId, content |-> content, role |-> role,
   timestamp |-> timestamp, metadata |-> metadata]
SessionRecords ==
  {[sessionId |-> "s1",
    nodes |-> <<Node("v1", "hi", "user", 100, Null),
                Node("v2", "yo", "assistant", 200, Text("{\"a\":1}"))>>],
   [sessionId |-> "s2", nodes |-> <<Node("v3", "ok", "user", 300, Text(""))>>],
   [sessionId |-> "s1", nodes |-> <<Node("v1", "hi", "user", 100, Null)>>]}

RECURSIVE SeqsUpTo(_, _)
SeqsUpTo(S, n) ==
  IF n = 0 THEN {<<>>}
  ELSE LET shorter == SeqsUpTo(S, n - 1)
       IN shorter \cup {Append(q, x) : q \in shorter, x \in S}

NoDuplicates(q) == \A i, j \in 1..Len(q) : q[i] = q[j] => i = j
Range(q) == {q[i] : i \in 1..Len(q)}

\* The vector store's answer: the records of the namespace that pass the
\* filter, by descending cosine similarity to the query vector (equal
\* similarities in the order of the ids), cut to topK.
IdRank(id) == CASE id = "v1" -> 1 [] id = "v2" -> 2 [] OTHER -> 3

RECURSIVE Ranked(_, _)
Ranked(records, vector) ==
  IF records = {} THEN <<>>
  ELSE LET best == CHOOSE r \in records :
                     \A o \in records :
                       \/ RatLess(cosineSimilarity(vector, o.values),
                                  cosineSimilarity(vector, r.values))
                       \/ /\ cosineSimilarity(vector, o.values)
                               = cosineSimilarity(vector, r.values)
                          /\ IdRank(r.id) <= IdRank(o.id)
       IN <<best>> \o Ranked(records \ {best}, vector)

VecQuery(store, userId, vector, topK) ==
  LET ranked == Ranked({r \in store : r.metadata.user_id = userId}, vector)
  IN SubSeq(ranked, 1, IF Len(ranked) < topK THEN Len(ranked) ELSE topK)

\* The graph store's answer to the Cypher query of getMsgContext: one
\* record per session record holding a message whose vector_id is asked
\* for, with the session's messages {content, role, timestamp, metadata}.
GraphQuery(store, vectorIds) ==
  LET touched == SelectSeq(store, LAMBDA r :
                   \E i \in 1..Len(r.nodes) : r.nodes[i].vector_id \in vectorIds)
  IN [k \in 1..Len(touched) |->
        [sessionId |-> touched[k].sessionId,
         contextMessages |->
           [i \in 1..Len(touched[k].nodes) |->
              [content |-> touched[k].nodes[i].content,
               role |-> touched[k].nodes[i].role,
               timestamp |-> touched[k].nodes[i].timestamp,
               metadata |-> touched[k].nodes[i].metadata]]]]

\* JSON.parse on the metadata texts of the model; any other text is not
\* JSON and makes it throw.
JsonSyntaxError == [thrown |-> "SyntaxError"]
JsonParse(text) ==
  CASE text = "{\"a\":1}" -> [a |-> 1]
    [] text = "{}" -> [object |-> "empty"]
    [] OTHER -> JsonSyntaxError

\* JavaScript truthiness of a message's metadata property.
MetadataTruthy(m) == m # Null /\ m # Undefined /\ m.text # ""

\* neo4jResult.records.forEach: sessionMessages (a later record with the
\* same sessionId replaces the earlier one) and sessions.
RECURSIVE SessionMessages(_, _, _)
SessionMessages(records, i, acc) ==
  IF i > Len(records) THEN acc
  ELSE SessionMessages(records, i + 1,
         MapSet(acc, records[i].sessionId,
                [key |-> records[i].sessionId,
                 messages |-> records[i].contextMessages]))

SessionIds(records) == [i \in 1..Len(records) |-> records[i].sessionId]

\* [...new Set(sessions)]: insertion order, a value kept once. The mutant
\* first: the spread without the Set.
SetSpreadNoSet(sessions) == sessions

SetSpread(sessions) ==
  LET RECURSIVE Add(_, _)
      Add(i, acc) ==
        IF i > Len(sessions) THEN acc
        ELSE Add(i + 1, IF sessions[i] \in Range(acc) THEN acc
                        ELSE Append(acc, sessions[i]))
  IN Add(1, <<>>)

\* The callback of matches.flatMap for one match: the session's messages,
\* each with session_id and its parsed metadata, or undefined when
\* sessionMessages has no property for the match's session.
Annotate(msg, sessionId) ==
  [content |-> msg.content, role |-> msg.role, timestamp |-> msg.timestamp,
   session_id |-> sessionId,
   metadata |-> IF MetadataTruthy(msg.metadata)
                THEN JsonParse(msg.metadata.text)
                ELSE Undefined]

MatchHasSession(match, sessionMessages) ==
  MapHas(sessionMessages, match.metadata.session_id)

MatchMessages(match, sessionMessages) ==
  LET sessionId == match.metadata.session_id
      list == MapGet(sessionMessages, sessionId).messages
  IN [i \in 1..Len(list) |-> Annotate(list[i], sessionId)]

\* Array.prototype.flatMap: an array returned by the callback is spliced
\* in, any other value (undefined here) becomes one element.
RECURSIVE FlatMap(_, _, _)
FlatMap(matches, i, sessionMessages) ==
  IF i > Len(matches) THEN <<>>
  ELSE (IF MatchHasSession(matches[i], sessionMessages)
        THEN MatchMessages(matches[i], sessionMessages)
        ELSE <<Undefined>>)
       \o FlatMap(matches, i + 1, sessionMessages)

\* Whether building the messages throws (JSON.parse on a metadata text).
MergeThrows(matches, records) ==
  LET sessionMessages == SessionMessages(records, 1, <<>>)
  IN \E i \in 1..Len(matches) :
       /\ MatchHasSession(matches[i], sessionMessages)
       /\ LET part == MatchMessages(matches[i], sessionMessages)
          IN \E j \in 1..Len(part) : part[j].metadata = JsonSyntaxError

\* contextResult of lines 478-481.
ContextResult(matches, records) ==
  [messages |-> FlatMap(matches, 1, SessionMessages(records, 1, <<>>)),
   relatedSessions |-> SetSpread(SessionIds(records))]

EmptyResult == [messages |-> <<>>, relatedSessions |-> <<>>]

\* "if (cachedResult)" of line 411. The mutant first: a hit only for a
\* result that has messages.
CachedIsHitNonEmpty(cachedResult) ==
  Truthy(cachedResult) /\ cachedResult.messages # <<>>

CachedIsHit(cachedResult) == Truthy(cachedResult)

\* The users, queries and result sizes requests are made with.
Users == {"u1"}
TopKs == 1..MaxTopK

NewRequest(userId, queryText, topK) ==
  [pc |-> "start", userId |-> userId, queryText |-> queryText, topK |-> topK,
   cacheKey |-> CacheKey(userId, queryText, topK),
   afterStore |-> FALSE, sessionsOpened |-> 0, sessionsClosed |-> 0,
   found |-> FALSE, stored |-> Null, cachedResult |-> Null,
   embedCalls |-> 0, vecCalls |-> 0, graphCalls |-> 0,
   queryEmbedding |-> <<>>, embedFailed |-> FALSE,
   vecFailed |-> FALSE, graphFailed |-> FALSE,
   matches |-> <<>>, records |-> <<>>,
   ok |-> FALSE, error |-> "none", result |-> Null]

Failed(r, error) == [r EXCEPT !.pc = "done", !.ok = FALSE, !.error = error]

\* KnowledgeBase.generateEmbedding rethrows the provider's error. The
\* mutant first: the error is swallowed.
GenerateEmbeddingThrowsNever(response) == FALSE

GenerateEmbeddingThrows(response) == response = EmbedError

\* An error of a store's query leaves getMsgContext through its catch
\* blocks, which rethrow it. The mutant first: the error is swallowed.
QueryThrowsNever(failed) == FALSE

QueryThrows(failed) == failed

\* No getMsgContext is in flight: the last one has reached its return or
\* throw (pc "done") and the session it opened, if any, has been closed.
KbSettled ==
  \/ req.pc = "idle"
  \/ req.pc = "done" /\ req.sessionsClosed = req.sessionsOpened

\* "this.pineconeIndex.namespace(userId)" on a field that was never
\* assigned throws a TypeError, which the catch blocks rethrow.
IndexMissing(index) == index = "undefined"

\* getMsgContext is called: the key is derived and contextCache.get runs
\* (found and stored record what the cache held under the key).
KbStart(userId, queryText, topK) ==
  /\ driven \in {"kb", "store", "init"}
  /\ KbSettled
  /\ InFlight = 0
  /\ ops < (CASE driven = "kb" -> MaxReqs
              [] driven = "init" -> MaxInitReqs
              [] OTHER -> MaxSessOps)
  /\ LET r == NewRequest(userId, queryText, topK)
         found == MapHas(semCache, r.cacheKey)
     IN /\ semCache' = SemGetCache(semCache, r.cacheKey, now)
        /\ IF found
           THEN semHits' = semHits + 1 /\ UNCHANGED semMisses
           ELSE semMisses' = semMisses + 1 /\ UNCHANGED semHits
        /\ req' = [r EXCEPT
                     !.pc = "gotCache",
                     !.afterStore = lastOp.name = "storeMessage" /\ lastOp.ok,
                     !.found = found,
                     !.stored = IF found THEN MapGet(semCache, r.cacheKey).data
                                ELSE Null,
                     !.cachedResult = SemGetValue(semCache, r.cacheKey)]
  /\ prev' = req
  /\ ops' = ops + 1
  /\ UNCHANGED <<now, ticks, semMaxSize, hybCache, hybMaxSize, hybHits,
                 hybMisses, calls, maxInFlight, driven, initVars, serverVars,
                 lastOp, vecStore,
                 graphStore>>

\* After "await this.contextCache.get": return the cached result, or call
\* generateEmbedding.
KbAfterGet ==
  /\ req.pc = "gotCache"
  /\ req' = IF CachedIsHit(req.cachedResult)
            THEN [req EXCEPT !.pc = "done", !.ok = TRUE,
                             !.result = req.cachedResult]
            ELSE [req EXCEPT !.pc = "embedding", !.embedCalls = @ + 1]
  /\ UNCHANGED <<now, ticks, ops, cacheVars, calls, maxInFlight, driven,
                 initVars, serverVars, lastOp, vecStore, graphStore, prev>>

\* KnowledgeBase.generateEmbedding answers: an error is rethrown, a vector
\* is sent to the vector store.
KbEmbedded(response) ==
  /\ req.pc = "embedding"
  /\ response \in EmbedResponses(req.queryText)
  /\ LET r == [req EXCEPT !.embedFailed = (response = EmbedError)]
     IN req' = IF GenerateEmbeddingThrows(response)
               THEN Failed(r, "embedding")
               ELSE IF IndexMissing(pineconeIndex)
               THEN Failed([r EXCEPT !.queryEmbedding = response], "index")
               ELSE [r EXCEPT !.pc = "vecQuery", !.vecCalls = @ + 1,
                              !.queryEmbedding = response]
  /\ UNCHANGED <<now, ticks, ops, cacheVars, calls, maxInFlight, driven,
                 initVars, serverVars, lastOp, vecStore, graphStore, prev>>

\* The mutant: the result is returned without contextCache.set.
CallSetSkipped(r) == calls' = calls

\* contextCache.set(cacheKey, result, queryText) is called by the request.
CallSet(r) ==
  calls' = [calls EXCEPT ![1] = [pc |-> "embedding", key |-> r.cacheKey,
                                 data |-> r.result,
                                 queryText |-> r.queryText]]

\* The vector store answers: an error is rethrown; zero matches make the
\* empty result, which is cached; otherwise the graph store is queried.
KbVecReturned(failed) ==
  /\ req.pc = "vecQuery"
  /\ LET r == [req EXCEPT !.vecFailed = failed]
     IN IF QueryThrows(failed)
        THEN req' = Failed(r, "vector") /\ UNCHANGED calls
        ELSE LET matches == VecQuery(vecStore, req.userId,
                                     req.queryEmbedding, req.topK)
             IN IF Len(matches) = 0
                THEN /\ req' = [r EXCEPT !.pc = "caching",
                                         !.result = EmptyResult]
                     /\ CallSet(req')
                ELSE /\ req' = [r EXCEPT !.pc = "graphQuery",
                                         !.matches = matches,
                                         !.sessionsOpened = @ + 1,
                                         !.graphCalls = @ + 1]
                     /\ UNCHANGED calls
  /\ UNCHANGED <<now, ticks, ops, cacheVars, maxInFlight, driven,
                 initVars, serverVars,
                 lastOp,
                 vecStore, graphStore, prev>>

\* The graph store answers: an error (or a JSON.parse error while merging)
\* is rethrown; otherwise the merged result is cached.
KbGraphReturned(failed) ==
  /\ req.pc = "graphQuery"
  /\ LET r == [req EXCEPT !.graphFailed = failed]
     IN IF QueryThrows(failed)
        THEN req' = Failed(r, "graph") /\ UNCHANGED calls
        ELSE LET vectorIds == {req.matches[i].id : i \in 1..Len(req.matches)}
                 records == GraphQuery(graphStore, vectorIds)
             IN IF MergeThrows(req.matches, records)
                THEN /\ req' = Failed([r EXCEPT !.records = records], "parse")
                     /\ UNCHANGED calls
                ELSE /\ req' = [r EXCEPT
                                  !.pc = "caching",
                                  !.records = records,
                                  !.result = ContextResult(req.matches, records)]
                     /\ CallSet(req')
  /\ UNCHANGED <<now, ticks, ops, cacheVars, maxInFlight, driven,
                 initVars, serverVars,
                 lastOp,
                 vecStore, graphStore, prev>>

\* The mutant of the finally block: it closes only after a success.
KbClosableOnSuccess(r) ==
  r.pc = "done" /\ r.ok /\ r.sessionsClosed < r.sessionsOpened

\* The session opened at line 434 is still to be closed when the request
\* reaches its return or a throw inside the inner try.
KbClosable(r) == r.pc = "done" /\ r.sessionsClosed < r.sessionsOpened

\* finally { await session.close() }: the session is closed and the
\* request settles; when close rejects, the request rejects.
KbClosed(failed) ==
  /\ KbClosable(req)
  /\ req' = [req EXCEPT !.sessionsClosed = @ + 1,
                        !.ok = @ /\ ~QueryThrows(failed),
                        !.error = IF QueryThrows(failed) /\ req.ok
                                  THEN "close" ELSE @]
  /\ UNCHANGED <<now, ticks, ops, cacheVars, calls, maxInFlight, driven,
                 initVars, serverVars, lastOp, vecStore, graphStore, prev>>

\* contextCache.set has completed: the result is returned.
KbReturn ==
  /\ req.pc = "caching"
  /\ calls[1].pc = "idle"
  /\ req' = [req EXCEPT !.pc = "done", !.ok = TRUE]
  /\ UNCHANGED <<now, ticks, ops, cacheVars, calls, maxInFlight, driven,
                 initVars, serverVars, lastOp, vecStore, graphStore, prev>>

\* getMsgContext of the cache-less KnowledgeBase, when the embedding and
\* both stores answer: embed, query the namespace, return the empty result
\* without matches, else query the graph and merge; a JSON.parse error of
\* the merge is rethrown.
getMsgContextUncached(vectors, graph, userId, queryText, topK) ==
  LET matches == VecQuery(vectors, userId, TextEmbedding(queryText), topK)
      vectorIds == {matches[i].id : i \in 1..Len(matches)}
      records == GraphQuery(graph, vectorIds)
  IN IF Len(matches) = 0 THEN [ok |-> TRUE, result |-> EmptyResult]
     ELSE IF MergeThrows(matches, records) THEN [ok |-> FALSE, result |-> Null]
     ELSE [ok |-> TRUE, result |-> ContextResult(matches, records)]

(***************************************************************************)
(* SpecKB: getMsgContext requests, one after the other, against stores     *)
(* that hold any of the model's records.                                   *)
(***************************************************************************)
InitKB ==
  /\ now = 0
  /\ ticks = 0
  /\ ops = 0
  /\ semCache = <<>>
  /\ semMaxSize \in 1..MaxCap
  /\ semHits = 0
  /\ semMisses = 0
  /\ hybCache = <<>>
  /\ hybMaxSize = MaxCap
  /\ hybHits = 0
  /\ hybMisses = 0
  /\ calls = [c \in Calls |-> IdleCall]
  /\ lastOp = [name |-> "none"]
  /\ maxInFlight = 1
  /\ driven = "kb"
  /\ vecStore \in SUBSET VecRecords
  /\ graphStore \in {g \in SeqsUpTo(SessionRecords, MaxRecords) :
                       NoDuplicates(g)}
  /\ req = [pc |-> "idle"]
  /\ prev = [pc |-> "idle"]
  /\ pineconeIndex = "Index"
  /\ initPc = "done"
  /\ transport = NoTransport
  /\ posts = <<>>

NextKB ==
  \/ \E userId \in Users, queryText \in Texts, topK \in TopKs :
       KbStart(userId, queryText, topK)
  \/ KbAfterGet
  \/ \E response \in Vectors \cup {EmbedError} : KbEmbedded(response)
  \/ \E failed \in BOOLEAN : KbVecReturned(failed)
  \/ \E failed \in BOOLEAN : KbGraphReturned(failed)
  \/ \E response \in Vectors \cup {EmbedError} : SemSetEmbedded(1, response)
  \/ SemSetInsert(1)
  \/ KbReturn
  \/ \E failed \in BOOLEAN : KbClosed(failed)

SpecKB == InitKB /\ [][NextKB]_vars

(***************************************************************************)
(* KnowledgeBase.storeMessage and KnowledgeBase.getSessionHistory. Each    *)
(* request occupies a slot of calls and is suspended at one of its awaits; *)
(* the graph store executes a statement some time before its answer        *)
(* arrives.                                                                *)
(***************************************************************************)
MaxSessTicks == 1

Sessions == {"s1", "s2"}
Metadatas == {[a |-> 1]}

\* JSON.stringify on the metadata objects of the model.
JsonStringify(metadata) ==
  IF metadata = [a |-> 1] THEN Text("{\"a\":1}") ELSE Text("{}")

\* A JavaScript array, as a cache payload or a return value.
Array(elements) == [array |-> elements]

\* ORDER BY m.timestamp: ascending, messages of equal timestamp in the
\* order of their creation.
RECURSIVE OrderByTimestamp(_)
OrderByTimestamp(nodes) ==
  IF nodes = <<>> THEN <<>>
  ELSE LET n == Len(nodes)
           sorted == OrderByTimestamp(SubSeq(nodes, 1, n - 1))
           k == Cardinality({i \in 1..(n - 1) :
                               sorted[i].timestamp <= nodes[n].timestamp})
       IN SubSeq(sorted, 1, k) \o <<nodes[n]>> \o SubSeq(sorted, k + 1, n - 1)

RECURSIVE SessionNodes(_, _, _)
SessionNodes(store, i, sessionId) ==
  IF i > Len(store) THEN <<>>
  ELSE (IF store[i].sessionId = sessionId THEN store[i].nodes ELSE <<>>)
         \o SessionNodes(store, i + 1, sessionId)

\* The graph store's answer to the query of getSessionHistory.
HistoryQuery(store, sessionId) ==
  OrderByTimestamp(SessionNodes(store, 1, sessionId))

\* result.records.map(...) in getSessionHistory, and whether its
\* JSON.parse throws.
HistoryMessages(records) ==
  [i \in 1..Len(records) |->
     [content |-> records[i].content, role |-> records[i].role,
      timestamp |-> records[i].timestamp,
      metadata |-> IF MetadataTruthy(records[i].metadata)
                   THEN JsonParse(records[i].metadata.text)
                   ELSE [object |-> "empty"]]]
HistoryThrows(records) ==
  \E i \in 1..Len(records) :
    /\ MetadataTruthy(records[i].metadata)
    /\ JsonParse(records[i].metadata.text) = JsonSyntaxError

\* MERGE (s:Session {session_id}) CREATE (m:Message {...})
\* MERGE (m)-[:PART_OF]->(s)
GraphCreate(store, sessionId, node) ==
  IF \E i \in 1..Len(store) : store[i].sessionId = sessionId
  THEN [i \in 1..Len(store) |->
          IF store[i].sessionId = sessionId
          THEN [store[i] EXCEPT !.nodes = Append(@, node)]
          ELSE store[i]]
  ELSE Append(store, [sessionId |-> sessionId, nodes |-> <<node>>])

\* Date.now() advances while requests are served.
SessTick ==
  /\ driven = "session"
  /\ ticks < MaxSessTicks
  /\ now' = now + TickMs
  /\ ticks' = ticks + 1
  /\ UNCHANGED <<ops, cacheVars, calls, maxInFlight, driven,
                 initVars, serverVars,
                 lastOp, kbVars>>

\* `vec_${messageId}`, the message ids being 0, 1, 2, ... in the model.
VectorId(messageId) ==
  <<"vec_0", "vec_1", "vec_2", "vec_3", "vec_4", "vec_5">>[messageId + 1]

\* storeMessage is called: messageId, vectorId and timestamp are taken and
\* the request suspends in generateEmbedding.
StoreCall(c, userId, sessionId, metadata) ==
  /\ driven \in {"session", "store", "init"}
  /\ KbSettled
  /\ ops < (IF driven = "init" THEN MaxInitReqs ELSE MaxSessOps)
  /\ InFlight < maxInFlight
  /\ LowestIdle(c)
  /\ calls' = [calls EXCEPT ![c] =
                 [pc |-> "storeEmbedding", userId |-> userId,
                  sessionId |-> sessionId, messageId |-> ops + 1,
                  vectorId |-> VectorId(ops + 1), content |-> "hi",
                  role |-> "user", timestamp |-> now,
                  metadata |-> metadata, sessionCache |-> hybCache,
                  sessionsOpened |-> 0, sessionsClosed |-> 0]]
  /\ ops' = ops + 1
  /\ UNCHANGED <<now, ticks, cacheVars, maxInFlight, driven,
                 initVars, serverVars,
                 lastOp, kbVars>>

\* A request rejects: the error goes to the caller.
StoreFails(c, error) ==
  /\ calls' = [calls EXCEPT ![c] = IdleCall]
  /\ lastOp' = [name |-> "storeMessage", sessionId |-> calls[c].sessionId,
                messageId |-> calls[c].messageId, ok |-> FALSE,
                error |-> error,
                sessionsOpened |-> calls[c].sessionsOpened,
                sessionsClosed |-> calls[c].sessionsClosed]

\* The embedding arrives or generateEmbedding throws; on success the
\* request suspends in the upsert.
StoreEmbedded(c, response) ==
  /\ calls[c].pc = "storeEmbedding"
  /\ IF GenerateEmbeddingThrows(response) THEN StoreFails(c, "embedding")
     ELSE IF IndexMissing(pineconeIndex) THEN StoreFails(c, "index")
     ELSE /\ calls' = [calls EXCEPT ![c] =
                         [calls[c] EXCEPT !.pc = "storeUpsert"]]
          /\ UNCHANGED lastOp
  /\ UNCHANGED <<now, ticks, ops, cacheVars, maxInFlight, driven,
                 initVars, serverVars,
                 kbVars>>

\* The upsert returns; on success the request suspends in session.run.
StoreUpserted(c, embedding, failed) ==
  /\ calls[c].pc = "storeUpsert"
  /\ IF QueryThrows(failed)
     THEN StoreFails(c, "vector") /\ UNCHANGED vecStore
     ELSE /\ vecStore' = vecStore \cup
               {[id |-> calls[c].vectorId, values |-> embedding,
                 metadata |-> [user_id |-> calls[c].userId,
                               session_id |-> calls[c].sessionId]]}
          /\ calls' = [calls EXCEPT ![c] =
                         [calls[c] EXCEPT !.pc = "storeRun",
                                          !.sessionsOpened = @ + 1]]
          /\ UNCHANGED lastOp
  /\ UNCHANGED <<now, ticks, ops, cacheVars, maxInFlight, driven,
                 initVars, serverVars,
                 graphStore, req, prev>>

\* The graph store executes the statement of storeMessage.
StoreServed(c) ==
  /\ calls[c].pc = "storeRun"
  /\ graphStore' = GraphCreate(graphStore, calls[c].sessionId,
                     Node(calls[c].vectorId, calls[c].content, calls[c].role,
                          calls[c].timestamp,
                          JsonStringify(calls[c].metadata)))
  /\ calls' = [calls EXCEPT ![c] = [calls[c] EXCEPT !.pc = "storeAnswer"]]
  /\ UNCHANGED <<now, ticks, ops, cacheVars, maxInFlight, driven,
                 initVars, serverVars,
                 lastOp, vecStore, req, prev>>

\* session.run of storeMessage returns: this.sessionCache.set(sessionId, [])
\* on success, and in both cases the request suspends in session.close.
StoreRan(c, failed) ==
  /\ calls[c].pc \in {"storeRun", "storeAnswer"}
  /\ calls[c].pc = "storeRun" => failed
  /\ hybCache' = IF QueryThrows(failed) THEN hybCache
                 ELSE HybSet(hybCache, hybMaxSize, calls[c].sessionId,
                             Array(<<>>), now)
  /\ calls' = [calls EXCEPT ![c] =
                 [pc |-> "storeClose", sessionId |-> calls[c].sessionId,
                  messageId |-> calls[c].messageId,
                  sessionCache |-> calls[c].sessionCache,
                  ok |-> ~QueryThrows(failed),
                  sessionsOpened |-> calls[c].sessionsOpened,
                  sessionsClosed |-> calls[c].sessionsClosed]]
  /\ UNCHANGED <<now, ticks, ops, semCache, semMaxSize, semHits, semMisses,
                 hybMaxSize, hybHits, hybMisses, maxInFlight, driven,
                 initVars, serverVars,
                 lastOp, kbVars>>

\* session.close returns and storeMessage returns messageId or rejects.
StoreClosed(c, failed) ==
  /\ calls[c].pc = "storeClose"
  /\ calls' = [calls EXCEPT ![c] = IdleCall]
  /\ lastOp' = [name |-> "storeMessage", sessionId |-> calls[c].sessionId,
                messageId |-> calls[c].messageId,
                ok |-> calls[c].ok /\ ~QueryThrows(failed),
                error |-> IF QueryThrows(failed) THEN "close"
                          ELSE IF calls[c].ok THEN "none" ELSE "graph",
                sessionsOpened |-> calls[c].sessionsOpened,
                sessionsClosed |-> calls[c].sessionsClosed + 1]
  /\ UNCHANGED <<now, ticks, ops, cacheVars, maxInFlight, driven,
                 initVars, serverVars,
                 kbVars>>

\* getSessionHistory is called: this.sessionCache.get(sessionId), and
\* either the cached result is returned or the request suspends in
\* session.run.
HistCall(c, sessionId) ==
  /\ driven \in {"session", "store"}
  /\ KbSettled
  /\ ops < MaxSessOps
  /\ InFlight < maxInFlight
  /\ LowestIdle(c)
  /\ hybCache' = HybGetCache(hybCache, sessionId, now)
  /\ IF MapHas(hybCache, sessionId)
     THEN hybHits' = hybHits + 1 /\ UNCHANGED hybMisses
     ELSE hybMisses' = hybMisses + 1 /\ UNCHANGED hybHits
  /\ LET cachedResult == HybGetValue(hybCache, sessionId)
     IN IF Truthy(cachedResult)
        THEN /\ lastOp' = [name |-> "getSessionHistory",
                           sessionId |-> sessionId, ok |-> TRUE,
                           cached |-> TRUE, result |-> cachedResult,
                           sessionsOpened |-> 0, sessionsClosed |-> 0]
             /\ UNCHANGED calls
        ELSE /\ calls' = [calls EXCEPT ![c] =
                            [pc |-> "histRun", sessionId |-> sessionId,
                             sessionsOpened |-> 1, sessionsClosed |-> 0]]
             /\ UNCHANGED lastOp
  /\ ops' = ops + 1
  /\ UNCHANGED <<now, ticks, semCache, semMaxSize, semHits, semMisses,
                 hybMaxSize, maxInFlight, driven,
                 initVars, serverVars, kbVars>>

\* The graph store executes the query of getSessionHistory.
HistServed(c) ==
  /\ calls[c].pc = "histRun"
  /\ calls' = [calls EXCEPT ![c] =
                 [calls[c] EXCEPT !.pc = "histAnswer"] @@
                 [records |-> HistoryQuery(graphStore, calls[c].sessionId)]]
  /\ UNCHANGED <<now, ticks, ops, cacheVars, maxInFlight, driven,
                 initVars, serverVars,
                 lastOp,
                 kbVars>>

\* session.run of getSessionHistory returns: the records are mapped and
\* this.sessionCache.set(sessionId, messages); the request suspends in
\* session.close.
HistRan(c, failed) ==
  /\ calls[c].pc \in {"histRun", "histAnswer"}
  /\ calls[c].pc = "histRun" => failed
  /\ IF QueryThrows(failed) \/ HistoryThrows(calls[c].records)
     THEN /\ calls' = [calls EXCEPT ![c] =
                         [pc |-> "histClose", sessionId |-> calls[c].sessionId,
                          ok |-> FALSE, result |-> Undefined,
                          sessionsOpened |-> calls[c].sessionsOpened,
                          sessionsClosed |-> calls[c].sessionsClosed]]
          /\ UNCHANGED hybCache
     ELSE LET messages == Array(HistoryMessages(calls[c].records))
          IN /\ hybCache' = HybSet(hybCache, hybMaxSize, calls[c].sessionId,
                                   messages, now)
             /\ calls' = [calls EXCEPT ![c] =
                            [pc |-> "histClose",
                             sessionId |-> calls[c].sessionId,
                             ok |-> TRUE, result |-> messages,
                             sessionsOpened |-> calls[c].sessionsOpened,
                             sessionsClosed |-> calls[c].sessionsClosed]]
  /\ UNCHANGED <<now, ticks, ops, semCache, semMaxSize, semHits, semMisses,
                 hybMaxSize, hybHits, hybMisses, maxInFlight, driven,
                 initVars, serverVars,
                 lastOp, kbVars>>

\* session.close returns and getSessionHistory returns messages or rejects.
HistClosed(c, failed) ==
  /\ calls[c].pc = "histClose"
  /\ calls' = [calls EXCEPT ![c] = IdleCall]
  /\ lastOp' = [name |-> "getSessionHistory",
                sessionId |-> calls[c].sessionId,
                ok |-> calls[c].ok /\ ~QueryThrows(failed),
                cached |-> FALSE,
                result |-> IF calls[c].ok /\ ~QueryThrows(failed)
                           THEN calls[c].result ELSE Undefined,
                sessionsOpened |-> calls[c].sessionsOpened,
                sessionsClosed |-> calls[c].sessionsClosed + 1]
  /\ UNCHANGED <<now, ticks, ops, cacheVars, maxInFlight, driven,
                 initVars, serverVars,
                 kbVars>>

(***************************************************************************)
(* SpecSession: storeMessage and getSessionHistory requests on one         *)
(* KnowledgeBase, one at a time or in flight together.                     *)
(***************************************************************************)
InitSession ==
  /\ now = 0
  /\ ticks = 0
  /\ ops = 0
  /\ semCache = <<>>
  /\ semMaxSize = MaxCap
  /\ semHits = 0
  /\ semMisses = 0
  /\ hybCache = <<>>
  /\ hybMaxSize \in 1..MaxCap
  /\ hybHits = 0
  /\ hybMisses = 0
  /\ calls = [c \in Calls |-> IdleCall]
  /\ lastOp = [name |-> "none"]
  /\ maxInFlight \in {1, NCalls}
  /\ driven = "session"
  /\ vecStore = {}
  /\ graphStore \in {<<>>,
                     <<[sessionId |-> "s1",
                        nodes |-> <<Node(VectorId(0), "hi", "user", 0,
                                        Null)>>]>>}
  /\ req = [pc |-> "idle"]
  /\ prev = [pc |-> "idle"]
  /\ pineconeIndex = "Index"
  /\ initPc = "done"
  /\ transport = NoTransport
  /\ posts = <<>>

NextSession ==
  \/ SessTick
  \/ \E c \in Calls, userId \in Users, sessionId \in Sessions,
        metadata \in Metadatas : StoreCall(c, userId, sessionId, metadata)
  \/ \E c \in Calls, response \in {TextEmbedding(<<67>>), EmbedError} :
       StoreEmbedded(c, response)
  \/ \E c \in Calls, failed \in BOOLEAN :
       StoreUpserted(c, TextEmbedding(<<67>>), failed)
  \/ \E c \in Calls : StoreServed(c)
  \/ \E c \in Calls, failed \in BOOLEAN : StoreRan(c, failed)
  \/ \E c \in Calls, failed \in BOOLEAN : StoreClosed(c, failed)
  \/ \E c \in Calls, sessionId \in Sessions : HistCall(c, sessionId)
  \/ \E c \in Calls : HistServed(c)
  \/ \E c \in Calls, failed \in BOOLEAN : HistRan(c, failed)
  \/ \E c \in Calls, failed \in BOOLEAN : HistClosed(c, failed)

SpecSession == InitSession /\ [][NextSession]_vars

(***************************************************************************)
(* SpecStore: getMsgContext, storeMessage and getSessionHistory requests   *)
(* on one KnowledgeBase, one after the other.                              *)
(***************************************************************************)
StoreTexts == {<<67>>, <<65, 97>>}

InitStore ==
  /\ now = 0
  /\ ticks = 0
  /\ ops = 0
  /\ semCache = <<>>
  /\ semMaxSize \in 1..MaxCap
  /\ semHits = 0
  /\ semMisses = 0
  /\ hybCache = <<>>
  /\ hybMaxSize = MaxCap
  /\ hybHits = 0
  /\ hybMisses = 0
  /\ calls = [c \in Calls |-> IdleCall]
  /\ lastOp = [name |-> "none"]
  /\ maxInFlight = 1
  /\ driven = "store"
  /\ \/ vecStore = {} /\ graphStore = <<>>
     \/ /\ vecStore = {VecRecord("v1", <<65, 97>>, "s1")}
        /\ graphStore = <<[sessionId |-> "s1",
                           nodes |-> <<Node("v1", "hi", "user", 100, Null)>>]>>
  /\ req = [pc |-> "idle"]
  /\ prev = [pc |-> "idle"]
  /\ pineconeIndex = "Index"
  /\ initPc = "done"
  /\ transport = NoTransport
  /\ posts = <<>>

NextStore ==
  \/ \E userId \in Users, queryText \in StoreTexts, topK \in TopKs :
       KbStart(userId, queryText, topK)
  \/ KbAfterGet
  \/ \E response \in Vectors \cup {EmbedError} : KbEmbedded(response)
  \/ \E failed \in BOOLEAN : KbVecReturned(failed)
  \/ \E failed \in BOOLEAN : KbGraphReturned(failed)
  \/ \E response \in Vectors \cup {EmbedError} : SemSetEmbedded(1, response)
  \/ SemSetInsert(1)
  \/ KbReturn
  \/ \E failed \in BOOLEAN : KbClosed(failed)
  \/ \E c \in Calls, userId \in Users, sessionId \in Sessions,
        metadata \in Metadatas : StoreCall(c, userId, sessionId, metadata)
  \/ \E c \in Calls, response \in {TextEmbedding(<<67>>), EmbedError} :
       StoreEmbedded(c, response)
  \/ \E c \in Calls, failed \in BOOLEAN :
       StoreUpserted(c, TextEmbedding(<<67>>), failed)
  \/ \E c \in Calls : StoreServed(c)
  \/ \E c \in Calls, failed \in BOOLEAN : StoreRan(c, failed)
  \/ \E c \in Calls, failed \in BOOLEAN : StoreClosed(c, failed)
  \/ \E c \in Calls, sessionId \in Sessions : HistCall(c, sessionId)
  \/ \E c \in Calls : HistServed(c)
  \/ \E c \in Calls, failed \in BOOLEAN : HistRan(c, failed)
  \/ \E c \in Calls, failed \in BOOLEAN : HistClosed(c, failed)

SpecStore == InitStore /\ [][NextStore]_vars

\* Every call awaited while a graph session is open settles: the request
\* that holds the session takes its next step.
SessionProgress ==
  \/ \E failed \in BOOLEAN : KbGraphReturned(failed)
  \/ \E response \in Vectors \cup {EmbedError} : SemSetEmbedded(1, response)
  \/ SemSetInsert(1)
  \/ KbReturn
  \/ \E failed \in BOOLEAN : KbClosed(failed)
  \/ \E c \in Calls : StoreServed(c)
  \/ \E c \in Calls, failed \in BOOLEAN : StoreRan(c, failed)
  \/ \E c \in Calls, failed \in BOOLEAN : StoreClosed(c, failed)
  \/ \E c \in Calls : HistServed(c)
  \/ \E c \in Calls, failed \in BOOLEAN : HistRan(c, failed)
  \/ \E c \in Calls, failed \in BOOLEAN : HistClosed(c, failed)

\* The runs of SpecStore over the smallest context cache, under that
\* fairness.
InitStoreLive == InitStore /\ semMaxSize = 1

SpecStoreLive ==
  InitStoreLive /\ [][NextStore]_vars /\ WF_vars(SessionProgress)

(***************************************************************************)
(* SpecInit: a KnowledgeBase is constructed; its initPineconeClient call,  *)
(* which the constructor does not await, runs while the first request is   *)
(* made.                                                                   *)
(***************************************************************************)

\* "await this.pineconeClient.listIndexes()" settles: on an error the call
\* rejects; when the index exists pineconeIndex is assigned and
\* initDatabase is awaited; else createIndex is awaited.
InitListed(exists, failed) ==
  /\ driven = "init"
  /\ initPc = "listIndexes"
  /\ IF failed THEN initPc' = "failed" /\ UNCHANGED pineconeIndex
     ELSE IF exists THEN initPc' = "initDatabase" /\ pineconeIndex' = "Index"
     ELSE initPc' = "createIndex" /\ UNCHANGED pineconeIndex
  /\ UNCHANGED <<now, ticks, ops, cacheVars, calls, maxInFlight, driven,
                 serverVars, lastOp, kbVars>>

\* "await this.pineconeClient.createIndex(..)" settles.
InitCreated(failed) ==
  /\ driven = "init"
  /\ initPc = "createIndex"
  /\ IF failed THEN initPc' = "failed" /\ UNCHANGED pineconeIndex
     ELSE initPc' = "initDatabase" /\ pineconeIndex' = "Index"
  /\ UNCHANGED <<now, ticks, ops, cacheVars, calls, maxInFlight, driven,
                 serverVars, lastOp, kbVars>>

\* "await this.initDatabase()" settles.
InitDatabaseDone(failed) ==
  /\ driven = "init"
  /\ initPc = "initDatabase"
  /\ initPc' = IF failed THEN "failed" ELSE "done"
  /\ UNCHANGED <<now, ticks, ops, cacheVars, calls, maxInFlight, driven,
                 pineconeIndex, serverVars, lastOp, kbVars>>

\* The state the constructor leaves: initPineconeClient has run up to its
\* first await, pineconeIndex is not assigned.
InitConstructed ==
  /\ now = 0
  /\ ticks = 0
  /\ ops = 0
  /\ semCache = <<>>
  /\ semMaxSize \in 1..MaxCap
  /\ semHits = 0
  /\ semMisses = 0
  /\ hybCache = <<>>
  /\ hybMaxSize = MaxCap
  /\ hybHits = 0
  /\ hybMisses = 0
  /\ calls = [c \in Calls |-> IdleCall]
  /\ lastOp = [name |-> "none"]
  /\ maxInFlight = 1
  /\ driven = "init"
  /\ \/ vecStore = {} /\ graphStore = <<>>
     \/ /\ vecStore = {VecRecord("v1", <<65, 97>>, "s1")}
        /\ graphStore = <<[sessionId |-> "s1",
                           nodes |-> <<Node("v1", "hi", "user", 100, Null)>>]>>
  /\ req = [pc |-> "idle"]
  /\ prev = [pc |-> "idle"]
  /\ pineconeIndex = "undefined"
  /\ initPc = "listIndexes"
  /\ transport = NoTransport
  /\ posts = <<>>

NextInit ==
  \/ \E exists \in BOOLEAN, failed \in BOOLEAN : InitListed(exists, failed)
  \/ \E failed \in BOOLEAN : InitCreated(failed)
  \/ \E failed \in BOOLEAN : InitDatabaseDone(failed)
  \/ \E userId \in Users, queryText \in StoreTexts, topK \in TopKs :
       KbStart(userId, queryText, topK)
  \/ KbAfterGet
  \/ \E response \in Vectors \cup {EmbedError} : KbEmbedded(response)
  \/ \E failed \in BOOLEAN : KbVecReturned(failed)
  \/ \E failed \in BOOLEAN : KbGraphReturned(failed)
  \/ \E response \in Vectors \cup {EmbedError} : SemSetEmbedded(1, response)
  \/ SemSetInsert(1)
  \/ KbReturn
  \/ \E failed \in BOOLEAN : KbClosed(failed)
  \/ \E c \in Calls, userId \in Users, sessionId \in Sessions,
        metadata \in Metadatas : StoreCall(c, userId, sessionId, metadata)
  \/ \E c \in Calls, response \in {TextEmbedding(<<67>>), EmbedError} :
       StoreEmbedded(c, response)
  \/ \E c \in Calls, failed \in BOOLEAN :
       StoreUpserted(c, TextEmbedding(<<67>>), failed)
  \/ \E c \in Calls : StoreServed(c)
  \/ \E c \in Calls, failed \in BOOLEAN : StoreRan(c, failed)
  \/ \E c \in Calls, failed \in BOOLEAN : StoreClosed(c, failed)

SpecInit == InitConstructed /\ [][NextInit]_vars

(***************************************************************************)
(* SpecServer: the SSE server. Two clients open /sse connections and POST  *)
(* to /get-msg-context in any order.                                       *)
(***************************************************************************)
MaxServerOps == 4
Clients == {"c1", "c2"}

\* app.get("/sse"): the handler assigns a new SSEServerTransport, made for
\* the response of this client's connection, to the module's variable.
SseConnect(client) ==
  /\ driven = "server"
  /\ ops < MaxServerOps
  /\ transport' = [client |-> client, connection |-> ops + 1]
  /\ ops' = ops + 1
  /\ UNCHANGED <<now, ticks, cacheVars, calls, maxInFlight, driven, initVars,
                 posts, lastOp, kbVars>>

\* "transport.handlePostMessage" on the unassigned variable throws a
\* TypeError: no transport handles the POST.
TransportMissing(t) == t = NoTransport

\* app.post("/get-msg-context"): the handler hands the request to whatever
\* the module's variable holds.
PostMessage(client) ==
  /\ driven = "server"
  /\ ops < MaxServerOps
  /\ posts' = Append(posts, [client |-> client, transport |-> transport,
                             handled |-> ~TransportMissing(transport)])
  /\ ops' = ops + 1
  /\ UNCHANGED <<now, ticks, cacheVars, calls, maxInFlight, driven, initVars,
                 transport, lastOp, kbVars>>

InitServer ==
  /\ now = 0
  /\ ticks = 0
  /\ ops = 0
  /\ semCache = <<>>
  /\ semMaxSize = MaxCap
  /\ semHits = 0
  /\ semMisses = 0
  /\ hybCache = <<>>
  /\ hybMaxSize = MaxCap
  /\ hybHits = 0
  /\ hybMisses = 0
  /\ calls = [c \in Calls |-> IdleCall]
  /\ lastOp = [name |-> "none"]
  /\ maxInFlight = 1
  /\ driven = "server"
  /\ vecStore = {}
  /\ graphStore = <<>>
  /\ req = [pc |-> "idle"]
  /\ prev = [pc |-> "idle"]
  /\ pineconeIndex = "undefined"
  /\ initPc = "listIndexes"
  /\ transport = NoTransport
  /\ posts = <<>>

NextServer ==
  \/ \E client \in Clients : SseConnect(client)
  \/ \E client \in Clients : PostMessage(client)

SpecServer == InitServer /\ [][NextServer]_vars

(***************************************************************************)
(* Claims on the two caches.                                               *)
(***************************************************************************)

\* C1: for every capacity C >= 1 and every sequence of get and set calls,
\* each completing before the next starts, neither SemanticCache nor
\* HybridLRUMRUCache holds more than C entries.
C1_CapacityBound ==
  /\ semMaxSize >= 1 => Len(semCache) <= semMaxSize
  /\ hybMaxSize >= 1 => Len(hybCache) <= hybMaxSize

\* A set on a full hybrid cache has evicted an entry and inserted its own.
C1_Witness ==
  /\ lastOp.name = "hybSet"
  /\ lastOp.victims # {}
  /\ hybMaxSize >= 1
  /\ Len(hybCache) = hybMaxSize
  /\ MapHas(hybCache, lastOp.key)

\* C2: with several set calls in flight on one SemanticCache (capacity
\* >= 1), the cache never holds more than maxSize entries.
C2_ConcurrentCapacityBound ==
  semMaxSize >= 1 => Len(semCache) <= semMaxSize

\* C10: the entry evictLeastSimilar removes from a full cache is the first
\* entry, in insertion order, whose hybridScore
\* cosineSimilarity(newEmbedding, embedding) - 0.2 * ((now - lastAccessed) / day)
\* is the minimum over all entries.
C10_Score(newEmbedding, entry, t) ==
  RatSub(cosineSimilarity(newEmbedding, entry.embedding),
         RatMul(<<1, 5>>, RatNorm(t - entry.lastAccessed, DayMs)))

C10_IsFirstMinimum(cache, i, newEmbedding, t) ==
  /\ \A j \in 1..Len(cache) :
       ~RatLess(C10_Score(newEmbedding, cache[j], t),
                C10_Score(newEmbedding, cache[i], t))
  /\ \A j \in 1..(i - 1) :
       RatLess(C10_Score(newEmbedding, cache[i], t),
               C10_Score(newEmbedding, cache[j], t))

C10_EvictsFirstMinimum ==
  [][\A c \in Calls :
       (calls[c].pc = "embedding" /\ calls'[c].pc = "evicted"
        /\ Len(semCache) > 0)
       => \E i \in 1..Len(semCache) :
            /\ C10_IsFirstMinimum(semCache, i, calls'[c].embedding, now)
            /\ semCache' = MapDelete(semCache, semCache[i].key)
            /\ Len(semCache') = Len(semCache) - 1]_vars

\* An eviction has chosen among two entries that were last accessed at
\* different times.
C10_Witness ==
  /\ lastOp.name = "semEvict"
  /\ lastOp.victims # {}
  /\ semMaxSize >= 2
  /\ Len(semCache) = semMaxSize - 1
  /\ \E i \in 1..Len(semCache) : semCache[i].lastAccessed < now

(***************************************************************************)
(* Claims on KnowledgeBase.getMsgContext.                                  *)
(***************************************************************************)
SameRequest(a, b) ==
  /\ a.userId = b.userId
  /\ a.queryText = b.queryText
  /\ a.topK = b.topK

\* C3: when getMsgContext finds an entry for its cache key in the semantic
\* cache, it returns that stored result unchanged and makes no vector-store
\* call and no graph-store call for the request.
C3_HitReturnsStored ==
  (req.pc = "done" /\ req.found)
  => /\ req.ok
     /\ req.result = req.stored
     /\ req.vecCalls = 0
     /\ req.graphCalls = 0

\* A request has returned from a cache entry that holds messages.
C3_Witness ==
  /\ req.pc = "done"
  /\ req.found
  /\ req.ok
  /\ req.result.messages # <<>>

\* C4: when the same (userId, queryText, topK) is requested twice in
\* succession, the first call having completed successfully, both calls
\* return the identical result and the second makes no vector-store and no
\* graph-store call.
C4_Idempotent ==
  (req.pc = "done" /\ prev.pc = "done" /\ prev.ok /\ SameRequest(req, prev))
  => /\ req.ok
     /\ req.result = prev.result
     /\ req.vecCalls = 0
     /\ req.graphCalls = 0

\* The first of two identical requests computed a result with messages
\* from both stores and the second has returned.
C4_Witness ==
  /\ req.pc = "done"
  /\ prev.pc = "done"
  /\ prev.ok
  /\ SameRequest(req, prev)
  /\ prev.vecCalls = 1
  /\ prev.graphCalls = 1
  /\ prev.result.messages # <<>>

\* C5: when the vector store returns zero hits, getMsgContext returns
\* {messages: [], relatedSessions: []}, makes no graph-store call, and has
\* stored that result in the semantic cache under the request's key; the
\* next identical call is served from the cache with no backing-store call.
C5_EmptyResultCached ==
  [][/\ (/\ req.pc = "vecQuery"
         /\ req'.pc # "vecQuery"
         /\ req'.error = "none"
         /\ Len(VecQuery(vecStore, req.userId, TextEmbedding(req.queryText),
                         req.topK)) = 0)
        => /\ req'.pc = "caching"
           /\ req'.result = EmptyResult
           /\ req'.graphCalls = 0
     /\ (req.pc = "caching" /\ req'.pc = "done" /\ req.graphCalls = 0)
        => /\ req'.ok
           /\ req'.result = EmptyResult
           /\ req'.graphCalls = 0
           /\ MapHas(semCache', req.cacheKey)
           /\ MapGet(semCache', req.cacheKey).data = EmptyResult
     /\ (/\ req'.pc = "done"
         /\ prev'.pc = "done"
         /\ prev'.ok
         /\ prev'.vecCalls = 1
         /\ prev'.graphCalls = 0
         /\ SameRequest(req', prev'))
        => /\ req'.ok
           /\ req'.result = EmptyResult
           /\ req'.embedCalls = 0
           /\ req'.vecCalls = 0
           /\ req'.graphCalls = 0]_vars

\* A request with zero hits returned the empty result and the identical
\* request after it has returned from the cache.
C5_Witness ==
  /\ req.pc = "done"
  /\ req.found
  /\ req.result = EmptyResult
  /\ prev.pc = "done"
  /\ prev.ok
  /\ prev.vecCalls = 1
  /\ prev.graphCalls = 0
  /\ SameRequest(req, prev)

\* The message list the graph-store response holds for a session id (the
\* last record with that id), and whether it holds one.
C6_Responds(records, sessionId) ==
  \E k \in 1..Len(records) : records[k].sessionId = sessionId

C6_SessionList(records, sessionId) ==
  LET last == CHOOSE k \in 1..Len(records) :
                /\ records[k].sessionId = sessionId
                /\ \A l \in (k + 1)..Len(records) :
                     records[l].sessionId # sessionId
  IN records[last].contextMessages

RECURSIVE C6_Concatenation(_, _, _)
C6_Concatenation(matches, records, i) ==
  IF i > Len(matches) THEN <<>>
  ELSE LET sessionId == matches[i].metadata.session_id
           list == IF C6_Responds(records, sessionId)
                   THEN C6_SessionList(records, sessionId)
                   ELSE <<>>
       IN [j \in 1..Len(list) |->
             [content |-> list[j].content, role |-> list[j].role,
              timestamp |-> list[j].timestamp, session_id |-> sessionId]]
          \o C6_Concatenation(matches, records, i + 1)

C6_Plain(messages) ==
  [j \in 1..Len(messages) |->
     IF messages[j] = Undefined THEN Undefined
     ELSE [content |-> messages[j].content, role |-> messages[j].role,
           timestamp |-> messages[j].timestamp,
           session_id |-> messages[j].session_id]]

\* C6: on a miss with hits h1..hn, messages is exactly the concatenation,
\* in hit order, of each hit's session's message list as the graph store
\* returned it, every message annotated with the hit's session id, the
\* list of a session appearing once per hit that lies in it.
C6_MessagesAreConcatenation ==
  (req.pc = "done" /\ req.ok /\ req.graphCalls = 1)
  => C6_Plain(req.result.messages)
       = C6_Concatenation(req.matches, req.records, 1)

RECURSIVE C7_ExpandedCount(_, _, _)
C7_ExpandedCount(matches, records, i) ==
  IF i > Len(matches) THEN 0
  ELSE (IF C6_Responds(records, matches[i].metadata.session_id)
        THEN Len(C6_SessionList(records, matches[i].metadata.session_id))
        ELSE 0)
       + C7_ExpandedCount(matches, records, i + 1)

\* C7: a hit whose session id has no record in the graph-store response
\* adds no element to messages: the length of messages is the sum of the
\* message counts of the sessions of the other hits.
C7_GapAddsNothing ==
  (req.pc = "done" /\ req.ok /\ req.graphCalls = 1)
  => Len(req.result.messages)
       = C7_ExpandedCount(req.matches, req.records, 1)

C8_FirstIndex(q, x) ==
  CHOOSE i \in 1..Len(q) : q[i] = x /\ \A j \in 1..(i - 1) : q[j] # x

\* C8: relatedSessions holds no session id twice and lists the session ids
\* of the graph-store records in first-seen order.
C8_RelatedSessionsDistinct ==
  (req.pc = "done" /\ req.ok)
  => LET related == req.result.relatedSessions
         ids == SessionIds(req.records)
     IN /\ NoDuplicates(related)
        /\ req.graphCalls = 1
           => /\ Range(related) = Range(ids)
              /\ \A a, b \in 1..Len(related) :
                   a < b => C8_FirstIndex(ids, related[a])
                              < C8_FirstIndex(ids, related[b])

\* A result was computed from a response that names one session in two
\* records.
C8_Witness ==
  /\ req.pc = "done"
  /\ req.ok
  /\ req.graphCalls = 1
  /\ ~NoDuplicates(SessionIds(req.records))
  /\ Len(req.result.relatedSessions) = 1

\* C9: in every result getMsgContext returns, computed or from the cache,
\* every element of messages carries a session id that is a member of
\* relatedSessions.
C9_MessagesInRelatedSessions ==
  (req.pc = "done" /\ req.ok)
  => \A i \in 1..Len(req.result.messages) :
       /\ req.result.messages[i] # Undefined
       /\ req.result.messages[i].session_id
            \in Range(req.result.relatedSessions)

(***************************************************************************)
(* Further claims on the two caches.                                       *)
(***************************************************************************)

\* C11: with SemanticCache capacity 1, a set of key B on a cache that holds
\* a different key A removes A's entry, whatever the similarity and the
\* staleness are, and the completed set leaves exactly B's entry.
C11_CapacityOneReplaces ==
  [][semMaxSize = 1
     => \A c \in Calls :
          /\ (calls[c].pc = "embedding" /\ calls'[c].pc # "embedding"
              /\ Len(semCache) = 1 /\ semCache[1].key # calls[c].key)
             => (semCache' = <<>> /\ calls'[c].pc = "evicted")
          /\ (calls[c].pc # "idle" /\ calls'[c].pc = "idle")
             => /\ Len(semCache') = 1
                /\ semCache'[1].key = calls[c].key
                /\ semCache'[1].data = calls[c].data]_vars

\* Key B has replaced key A in a cache of capacity 1 in the millisecond
\* of A's write (staleness 0).
C11_Witness ==
  /\ semMaxSize = 1
  /\ lastOp.name = "semSet"
  /\ lastOp.victims # {}
  /\ lastOp.key \notin lastOp.victims
  /\ MapKeys(semCache) = {lastOp.key}
  /\ now = 0
  /\ semCache[1].embedding = <<1, 0>>

\* C12: SemanticCache.get(k) changes no entry other than the one stored
\* under k (lastAccessed, embedding and payload of every other entry stay),
\* and of k's entry only lastAccessed.
C12_GetTouchesOnlyItsKey ==
  [][(semHits' + semMisses' = semHits + semMisses + 1)
     => /\ lastOp'.name = "semGet"
        /\ Len(semCache') = Len(semCache)
        /\ \A i \in 1..Len(semCache) :
             IF semCache[i].key = lastOp'.key
             THEN semCache'[i] = [semCache[i] EXCEPT !.lastAccessed = now]
             ELSE semCache'[i] = semCache[i]]_vars

\* A get has hit one of two entries at a time later than the last access
\* of the other one.
C12_Witness ==
  /\ lastOp.name = "semGet"
  /\ lastOp.hit
  /\ Len(semCache) = 2
  /\ \E i \in 1..2 :
       /\ semCache[i].key # lastOp.key
       /\ semCache[i].lastAccessed < now
  /\ MapGet(semCache, lastOp.key).lastAccessed = now

\* C13: for both caches getStats().hitRate is hits / (hits + misses) once a
\* get has been made and exactly 0 before the first get, whatever the
\* number of set calls; hits and misses count the get calls and nothing
\* else.
C13_StatsOf(stats, hits, misses) ==
  /\ stats.hits = hits
  /\ stats.misses = misses
  /\ IF hits + misses = 0
     THEN stats.hitRate = RatInt(0)
     ELSE RatMul(stats.hitRate, RatInt(hits + misses)) = RatInt(hits)

C13_HitRate ==
  /\ [](/\ lastOp.name = "semStats"
           => C13_StatsOf(lastOp.stats, semHits, semMisses)
        /\ lastOp.name = "hybStats"
           => C13_StatsOf(lastOp.stats, hybHits, hybMisses))
  /\ [][/\ <<semHits, semMisses>>' # <<semHits, semMisses>>
           => /\ lastOp'.name = "semGet"
              /\ <<semHits', semMisses'>>
                   = IF lastOp'.hit THEN <<semHits + 1, semMisses>>
                     ELSE <<semHits, semMisses + 1>>
        /\ <<hybHits, hybMisses>>' # <<hybHits, hybMisses>>
           => /\ lastOp'.name = "hybGet"
              /\ <<hybHits', hybMisses'>>
                   = IF lastOp'.hit THEN <<hybHits + 1, hybMisses>>
                     ELSE <<hybHits, hybMisses + 1>>
        /\ (/\ lastOp'.name \in {"semGet", "hybGet"}
            /\ ops' = ops + 1
            /\ calls' = calls)
           => (semHits + semMisses + hybHits + hybMisses)'
                = semHits + semMisses + hybHits + hybMisses + 1]_vars

\* getStats has answered 1/2 after a set, a hit and a miss.
C13_Witness ==
  /\ lastOp.name = "semStats"
  /\ lastOp.stats.hits = 1
  /\ lastOp.stats.misses = 1
  /\ lastOp.stats.hitRate = <<1, 2>>
  /\ lastOp.stats.size = 1

\* A set on a full HybridLRUMRUCache: the step, and what the cache is
\* after it when evict removes entry i.
C14_EvictingSet ==
  /\ lastOp'.name = "hybSet"
  /\ ops' = ops + 1
  /\ hybMaxSize >= 1
  /\ Len(hybCache) >= hybMaxSize

C14_AfterRemoving(i) ==
  hybCache' = MapSet(MapDelete(hybCache, hybCache[i].key), lastOp'.key,
                     HybEntry(lastOp'.key,
                              MapGet(hybCache', lastOp'.key).data, now))

\* C14: when evict runs on a cache whose entries all have the same
\* lastAccessed (the current time included, every age 0), the entry
\* removed is one with the lowest accessCount.
C14_EvictsLowestCount ==
  [][(/\ C14_EvictingSet
      /\ \A i, j \in 1..Len(hybCache) :
           hybCache[i].lastAccessed = hybCache[j].lastAccessed)
     => \E i \in 1..Len(hybCache) :
          /\ \A j \in 1..Len(hybCache) :
               hybCache[i].accessCount <= hybCache[j].accessCount
          /\ C14_AfterRemoving(i)]_vars

\* C15: when evict runs on a cache whose entries all have the same
\* accessCount, the entry removed is one with the oldest lastAccessed.
C15_EvictsOldest ==
  [][(/\ C14_EvictingSet
      /\ \A i, j \in 1..Len(hybCache) :
           hybCache[i].accessCount = hybCache[j].accessCount)
     => \E i \in 1..Len(hybCache) :
          /\ \A j \in 1..Len(hybCache) :
               hybCache[i].lastAccessed <= hybCache[j].lastAccessed
          /\ C14_AfterRemoving(i)]_vars

\* An eviction on two entries with equal accessCount has removed the
\* older one, which was the later one in the map: the survivor is the
\* first key set, read once, after the only other read.
C15_Witness ==
  /\ lastOp.name = "hybSet"
  /\ lastOp.victims # {}
  /\ lastOp.key \notin lastOp.victims
  /\ hybMaxSize = 2
  /\ Len(hybCache) = 2
  /\ hybHits = 2
  /\ hybMisses = 0
  /\ hybCache[1].accessCount = 2
  /\ hybCache[1].timestamp = 0
  /\ hybCache[1].lastAccessed = 2 * TickMs
  /\ hybCache[2].key = lastOp.key

(***************************************************************************)
(* Further claims on KnowledgeBase.getMsgContext.                          *)
(***************************************************************************)

\* C16: when the embedding provider fails during SemanticCache.set, set
\* uses an all-zero vector of the configured dimension, still evicts from
\* a full cache, and stores the entry, so that the next get on the key is
\* a hit; the enclosing getMsgContext returns its assembled result.
C16_IsZeroVector(v) ==
  /\ Len(v) = VECTOR_DIMENSION
  /\ \A i \in 1..Len(v) : v[i] = 0

C16_SetSurvivesEmbeddingFailure ==
  [][/\ (/\ calls[1].pc = "embedding"
         /\ calls'[1].pc # "embedding"
         /\ lastOp'.embedFailed)
        => IF Len(semCache) >= semMaxSize
           THEN /\ calls'[1].pc = "evicted"
                /\ C16_IsZeroVector(calls'[1].embedding)
                /\ Len(semCache') = Len(semCache) - 1
           ELSE /\ calls'[1].pc = "idle"
                /\ Len(semCache') = Len(semCache) + 1
     /\ (calls[1].pc # "idle" /\ calls'[1].pc = "idle" /\ lastOp'.embedFailed)
        => /\ lastOp'.name = "semSet"
           /\ MapHas(semCache', req.cacheKey)
           /\ MapGet(semCache', req.cacheKey).data = req.result
           /\ C16_IsZeroVector(MapGet(semCache', req.cacheKey).embedding)
           /\ req'.pc = "caching"
     /\ (/\ req.pc = "caching"
         /\ req'.pc = "done"
         /\ lastOp.name = "semSet"
         /\ lastOp.embedFailed)
        => /\ req'.ok
           /\ req'.result = req.result
           /\ req'.result # Null
     /\ (/\ req.pc = "done"
         /\ req.ok
         /\ req'.pc = "gotCache"
         /\ lastOp.name = "semSet"
         /\ lastOp.embedFailed
         /\ lastOp.key = req'.cacheKey)
        => /\ req'.found
           /\ req'.cachedResult = req.result
           /\ semHits' = semHits + 1]_vars

\* A request whose set lost its embedding evicted the entry of the request
\* before it from a full cache and has returned its result with messages.
C16_Witness ==
  /\ req.pc = "done"
  /\ req.ok
  /\ ~req.found
  /\ req.result.messages # <<>>
  /\ lastOp.name = "semSet"
  /\ lastOp.embedFailed
  /\ lastOp.victims # {}
  /\ MapGet(semCache, req.cacheKey).embedding = ZeroVector

\* C17: when the embedding provider fails for the query embedding on a
\* cache miss, getMsgContext fails with that error, makes no vector-store
\* and no graph-store call, and adds no entry to the semantic cache.
C17_EmbeddingFailureFails ==
  /\ []((req.pc # "idle" /\ req.embedFailed)
        => /\ req.pc = "done"
           /\ ~req.ok
           /\ req.error = "embedding"
           /\ req.result = Null
           /\ req.vecCalls = 0
           /\ req.graphCalls = 0
           /\ calls[1].pc = "idle"
           /\ ~MapHas(semCache, req.cacheKey))
  /\ [][(req.pc = "embedding" /\ req'.embedFailed)
        => semCache' = semCache]_vars

\* The second request has failed at its query embedding while the cache
\* holds the entry of the first.
C17_Witness ==
  /\ req.pc = "done"
  /\ req.embedFailed
  /\ req.error = "embedding"
  /\ prev.pc = "done"
  /\ prev.ok
  /\ Len(semCache) = 1
  /\ MapHas(semCache, prev.cacheKey)

\* C18: when the vector-store query or the graph-store query fails, the
\* request fails with that error, no result (no vector-only result either)
\* is returned, no entry is stored under the request's key, and a later
\* identical request queries the stores again.
C18_StoreFailed(r) == r.pc = "done" /\ (r.vecFailed \/ r.graphFailed)

C20_Order(pc) ==
  CASE pc = "gotCache" -> 1
    [] pc = "embedding" -> 2
    [] pc = "vecQuery" -> 3
    [] pc = "graphQuery" -> 4
    [] pc = "caching" -> 5
    [] OTHER -> 6

C20_StepOrder ==
  [][/\ (req.pc = "gotCache" /\ req'.pc # "gotCache" /\ ~req.found)
        => /\ req'.pc = "embedding"
           /\ <<req'.embedCalls, req'.vecCalls, req'.graphCalls>> = <<1, 0, 0>>
     /\ (req.pc = "embedding" /\ req'.pc # "embedding" /\ ~req'.embedFailed)
        => /\ req'.pc = "vecQuery"
           /\ <<req'.embedCalls, req'.vecCalls, req'.graphCalls>> = <<1, 1, 0>>
     /\ (req.pc = "vecQuery" /\ req'.pc # "vecQuery" /\ Len(req'.matches) > 0)
        => /\ req'.pc = "graphQuery"
           /\ <<req'.embedCalls, req'.vecCalls, req'.graphCalls>> = <<1, 1, 1>>
           /\ calls'[1].pc = "idle"
     /\ (req.pc = "graphQuery" /\ req'.pc # "graphQuery" /\ ~req'.graphFailed
         /\ req'.error = "none")
        => /\ req'.pc = "caching"
           /\ <<req'.embedCalls, req'.vecCalls, req'.graphCalls>> = <<1, 1, 1>>
           /\ calls'[1].pc = "embedding"
           /\ calls'[1].key = req.cacheKey
           /\ calls'[1].data = req'.result
           /\ calls'[1].queryText = req.queryText
           /\ semCache' = semCache
     /\ (req.pc = "caching" /\ req'.pc # "caching")
        => /\ req'.pc = "done"
           /\ req'.ok
           /\ req'.result = req.result
           /\ <<req'.embedCalls, req'.vecCalls, req'.graphCalls>>
                = <<req.embedCalls, req.vecCalls, req.graphCalls>>
           /\ calls[1].pc = "idle"
           /\ MapHas(semCache, req.cacheKey)
           /\ MapGet(semCache, req.cacheKey).data = req.result
     /\ (req.pc \notin {"idle", "done"} /\ req'.pc \notin {"idle", "done"})
        => C20_Order(req.pc) <= C20_Order(req'.pc)
     /\ (req'.pc = "done" /\ req'.ok /\ Len(req'.matches) > 0)
        => req.pc \in {"caching", "done"}]_vars

\* A miss with two hits has returned after one query of each store and
\* its result is in the cache.
C20_Witness ==
  /\ req.pc = "done"
  /\ req.ok
  /\ ~req.found
  /\ Len(req.matches) = 2
  /\ req.embedCalls = 1
  /\ req.vecCalls = 1
  /\ req.graphCalls = 1
  /\ MapHas(semCache, req.cacheKey)
  /\ MapGet(semCache, req.cacheKey).data = req.result

(***************************************************************************)
(* Claims on eviction from a cache in use and on the cache contracts.      *)
(***************************************************************************)
RECURSIVE C21_MaxOver(_, _)
C21_MaxOver(values, i) ==
  IF i > Len(values) THEN 0
  ELSE Max2(values[i], C21_MaxOver(values, i + 1))

\* The score of the specified policy: frequency and age normalised against
\* the maxima over all entries, a maximal age of 0 read as recency 1.
C21_Score(entry, cache, t) ==
  LET Count(e) == e.accessCount
      Age(e) == t - e.lastAccessed
      maxCount == C21_MaxOver([i \in 1..Len(cache) |-> Count(cache[i])], 1)
      maxAge == C21_MaxOver([i \in 1..Len(cache) |-> Age(cache[i])], 1)
      normalizedRecency == IF maxAge = 0 THEN RatInt(1)
                           ELSE RatSub(RatInt(1), RatNorm(Age(entry), maxAge))
  IN RatAdd(RatMul(<<3, 5>>, RatNorm(Count(entry), maxCount)),
            RatMul(<<2, 5>>, normalizedRecency))

\* C21: the entry HybridLRUMRUCache.evict removes is one with the lowest
\* score 0.6 * (accessCount / maxCount) + 0.4 * (1 - age / maxAge), maxCount
\* and maxAge being the maxima over all entries present at the eviction.
C21_EvictsLowestGlobalScore ==
  [][C14_EvictingSet
     => \E i \in 1..Len(hybCache) :
          /\ \A j \in 1..Len(hybCache) :
               ~RatLess(C21_Score(hybCache[j], hybCache, now),
                        C21_Score(hybCache[i], hybCache, now))
          /\ C14_AfterRemoving(i)]_vars

\* C22: in HybridLRUMRUCache every entry has accessCount >= 1; set(k)
\* leaves k's entry with accessCount 1, a get(k) hit adds 1 to it, and a
\* get or set of another key leaves it as it is.
C22_HybStep(name) ==
  driven = "hybrid" /\ ops' = ops + 1 /\ lastOp'.name = name

C22_AccessCount ==
  /\ [](\A i \in 1..Len(hybCache) : hybCache[i].accessCount >= 1)
  /\ [][/\ C22_HybStep("hybSet")
           => /\ MapGet(hybCache', lastOp'.key).accessCount = 1
              /\ \A k \in MapKeys(hybCache') \ {lastOp'.key} :
                   /\ MapHas(hybCache, k)
                   /\ MapGet(hybCache', k).accessCount
                        = MapGet(hybCache, k).accessCount
        /\ C22_HybStep("hybGet")
           => /\ MapKeys(hybCache') = MapKeys(hybCache)
              /\ \A k \in MapKeys(hybCache) :
                   MapGet(hybCache', k).accessCount
                     = MapGet(hybCache, k).accessCount
                       + (IF k = lastOp'.key THEN 1 ELSE 0)
        /\ ops' = ops => hybCache' = hybCache]_vars

\* An entry has been read twice since its set, with a set of another key
\* in between.
C22_Witness ==
  /\ Len(hybCache) = 2
  /\ hybCache[1].accessCount = 3
  /\ hybCache[2].accessCount = 1
  /\ hybHits = 2
  /\ lastOp.name = "hybGet"
  /\ lastOp.key = hybCache[1].key

\* C23: with capacity >= 1 and calls that do not overlap, a completed
\* set(k, v) leaves exactly one entry under k, and that entry is a new one:
\* payload v, timestamps at the time of the insert and, in the hybrid
\* cache, accessCount 1. A get(k) that follows it, with no other call in
\* between, is a hit that returns v.
C23_SetCompletes(name) ==
  /\ lastOp'.name = name
  /\ \/ name = "semSet" /\ ops' = ops /\ calls' # calls
     \/ name = "hybSet" /\ ops' = ops + 1

C23_OneEntry(cache, key) ==
  Cardinality({i \in 1..Len(cache) : cache[i].key = key}) = 1

C23_RoundTrip ==
  [][/\ (semMaxSize >= 1 /\ C23_SetCompletes("semSet"))
        => /\ C23_OneEntry(semCache', lastOp'.key)
           /\ LET entry == MapGet(semCache', lastOp'.key)
              IN /\ entry.data = lastOp'.data
                 /\ entry.timestamp = now
                 /\ entry.lastAccessed = now
     /\ (hybMaxSize >= 1 /\ C23_SetCompletes("hybSet"))
        => /\ C23_OneEntry(hybCache', lastOp'.key)
           /\ MapGet(hybCache', lastOp'.key)
                = HybEntry(lastOp'.key, lastOp'.data, now)
     /\ (/\ semMaxSize >= 1
         /\ lastOp.name = "semSet"
         /\ lastOp'.name = "semGet"
         /\ lastOp'.key = lastOp.key)
        => lastOp'.hit /\ lastOp'.value = lastOp.data
     /\ (/\ hybMaxSize >= 1
         /\ lastOp.name = "hybSet"
         /\ lastOp'.name = "hybGet"
         /\ lastOp'.key = lastOp.key)
        => lastOp'.hit /\ lastOp'.value = lastOp.data]_vars

\* A get has returned the payload of a set that replaced an entry with
\* another payload, read before and set at an earlier time.
C23_Witness ==
  /\ driven = "hybrid"
  /\ lastOp.name = "hybGet"
  /\ lastOp.hit
  /\ lastOp.value = [payload |-> "d2"]
  /\ ops = 4
  /\ hybHits = 2
  /\ Len(hybCache) = 1
  /\ hybCache[1].accessCount = 2
  /\ hybCache[1].timestamp = TickMs

\* C24: in both caches a get adds 1 to exactly one of the hit and miss
\* counters, the hit counter iff the key is stored, and changes neither the
\* keys nor a payload; no other step moves a counter. The counters start at
\* 0, so hits + misses is the number of get calls made, and the size
\* getStats reports is the number of keys stored.
C24_Payloads(cache) ==
  [i \in 1..Len(cache) |-> <<cache[i].key, cache[i].data>>]

C24_GetStep(name) ==
  lastOp'.name = name /\ ops' = ops + 1 /\ calls' = calls

C24_GetFrame ==
  /\ semHits + semMisses + hybHits + hybMisses = 0
  /\ [](/\ lastOp.name = "semStats"
           => lastOp.stats.size = Cardinality(MapKeys(semCache))
        /\ lastOp.name = "hybStats"
           => lastOp.stats.size = Cardinality(MapKeys(hybCache)))
  /\ [][/\ C24_GetStep("semGet")
           => /\ <<semHits', semMisses'>>
                   = IF MapHas(semCache, lastOp'.key)
                     THEN <<semHits + 1, semMisses>>
                     ELSE <<semHits, semMisses + 1>>
              /\ C24_Payloads(semCache') = C24_Payloads(semCache)
        /\ C24_GetStep("hybGet")
           => /\ <<hybHits', hybMisses'>>
                   = IF MapHas(hybCache, lastOp'.key)
                     THEN <<hybHits + 1, hybMisses>>
                     ELSE <<hybHits, hybMisses + 1>>
              /\ C24_Payloads(hybCache') = C24_Payloads(hybCache)
        /\ ~(C24_GetStep("semGet") \/ C24_GetStep("hybGet"))
           => UNCHANGED <<semHits, semMisses, hybHits, hybMisses>>]_vars

\* getStats has answered after two sets, a hit and a miss.
C24_Witness ==
  /\ lastOp.name = "hybStats"
  /\ lastOp.stats.hits = 1
  /\ lastOp.stats.misses = 1
  /\ lastOp.stats.size = 2
  /\ ops = 4

\* C25: cosineSimilarity is exactly 0 when one of its vectors has norm 0.
\* So when the embedding of a set is the zero vector, the score of every
\* entry is -0.2 times its staleness in days, and the entry evicted is the
\* one accessed longest ago (the first such entry in map order).
C25_Oldest(cache, i) ==
  /\ \A j \in 1..Len(cache) : cache[i].lastAccessed <= cache[j].lastAccessed
  /\ \A j \in 1..(i - 1) : cache[i].lastAccessed < cache[j].lastAccessed

C25_ZeroNormEvictsOldest ==
  /\ [](\A i \in 1..Len(semCache) : \A v \in Vectors \cup {ZeroVector} :
          /\ cosineSimilarity(ZeroVector, semCache[i].embedding) = RatInt(0)
          /\ cosineSimilarity(semCache[i].embedding, ZeroVector) = RatInt(0)
          /\ cosineSimilarity(ZeroVector, v) = RatInt(0)
          /\ cosineSimilarity(v, ZeroVector) = RatInt(0))
  /\ [][\A c \in Calls :
          (/\ calls[c].pc = "embedding"
           /\ calls'[c].pc = "evicted"
           /\ calls'[c].embedFailed)
          => /\ \A i \in 1..Len(semCache) :
                  hybridScore(ZeroVector, semCache[i], now)
                    = RatMul(<<-1, 5>>,
                             RatDiv(RatInt(now - semCache[i].lastAccessed),
                                    RatInt(DayMs)))
             /\ \E i \in 1..Len(semCache) :
                  /\ C25_Oldest(semCache, i)
                  /\ semCache' = MapDelete(semCache, semCache[i].key)]_vars

\* A set whose embedding failed has evicted the second of two entries, the
\* one accessed longer ago.
C25_Witness ==
  /\ lastOp.name = "semEvict"
  /\ lastOp.embedFailed
  /\ lastOp.victims = {WarmKey(2)}
  /\ Len(semCache) = 1
  /\ semCache[1].key = WarmKey(1)
  /\ semCache[1].lastAccessed > 0

\* C26: the session cache never holds more than maxSize (>= 1) entries,
\* whatever the interleaving of the getSessionHistory and storeMessage
\* requests in flight: each request touches the cache only in one get or
\* one set, which runs between two of its suspensions.
C26_SessionCacheBounded ==
  driven = "session"
    => /\ hybMaxSize >= 1
       /\ Len(hybCache) <= hybMaxSize
       /\ \A i, j \in 1..Len(hybCache) :
            hybCache[i].key = hybCache[j].key => i = j

\* Two requests are in flight, both suspended in session.close: the
\* storeMessage has set its session in the cache of capacity 1, and the
\* getSessionHistory of the other session, after it, has evicted that
\* entry and cached its own result.
C26_Witness ==
  /\ driven = "session"
  /\ hybMaxSize = 1
  /\ calls[1].pc = "storeClose"
  /\ calls[1].ok
  /\ calls[2].pc = "histClose"
  /\ calls[2].ok
  /\ calls[2].sessionId # calls[1].sessionId
  /\ Len(hybCache) = 1
  /\ hybCache[1].key = calls[2].sessionId
  /\ hybCache[1].data = calls[2].result

\* C27: a SemanticCache or HybridLRUMRUCache constructed with maxSize 0
\* holds no entry once a set call has completed.
C27_ZeroCapacityHoldsNothing ==
  /\ (semMaxSize = 0 /\ InFlight = 0) => Len(semCache) = 0
  /\ hybMaxSize = 0 => Len(hybCache) = 0

\* C28: the tie-break of HybridLRUMRUCache.evict is deterministic and by
\* insertion order: when all entries have the same accessCount and the same
\* lastAccessed at eviction time, the entry removed is the one whose key
\* was inserted earliest, the first of the map, so the cache after the set
\* is a function of the cache before it, the arguments and the clock.
C28_AllTied(cache) ==
  \A i, j \in 1..Len(cache) :
    /\ cache[i].accessCount = cache[j].accessCount
    /\ cache[i].lastAccessed = cache[j].lastAccessed

C29_NextHistory ==
  /\ maxInFlight = 1
  /\ lastOp.name = "storeMessage"
  /\ lastOp.ok
  /\ lastOp'.name = "getSessionHistory"
  /\ lastOp'.ok
  /\ lastOp'.sessionId = lastOp.sessionId

C29_HistoryAfterStore ==
  [][C29_NextHistory
       => LET held == HistoryQuery(graphStore', lastOp.sessionId)
          IN /\ \E i \in 1..Len(held) :
                  held[i].vector_id = VectorId(lastOp.messageId)
             /\ lastOp'.result = Array(HistoryMessages(held))]_vars

\* C30: in both caches a set(k, v) on a full cache that already holds k
\* removes no entry: the keys stored are the same before and after the
\* call.
C30_OverwriteKeepsKeys ==
  [][/\ \A c \in Calls :
          (/\ calls[c].pc = "evicted"
           /\ calls'[c].pc = "idle"
           /\ semMaxSize >= 1
           /\ calls[c].key \in MapKeys(semCache) \cup calls[c].victims)
          => MapKeys(semCache') = MapKeys(semCache) \cup calls[c].victims
     /\ (C14_EvictingSet /\ MapHas(hybCache, lastOp'.key))
        => MapKeys(hybCache') = MapKeys(hybCache)]_vars

(***************************************************************************)
(* Claims on the cache key, on freshness, on sessions and on the servers.  *)
(***************************************************************************)

\* C31: two getMsgContext requests that differ in queryText (same userId
\* and topK) never derive the same cache key, so a request that is served
\* from the semantic cache is served a result computed for its own
\* (userId, queryText, topK).
C31_HitForSameQuery ==
  /\ (/\ req.pc # "idle"
      /\ prev.pc # "idle"
      /\ req.userId = prev.userId
      /\ req.topK = prev.topK
      /\ req.queryText # prev.queryText)
     => req.cacheKey # prev.cacheKey
  /\ (req.pc = "done" /\ req.ok /\ req.found /\ prev.pc = "done")
     => SameRequest(req, prev)

\* What a retrieval against the given stores returns for the arguments of
\* request r.
C32_Retrieval(vectors, graph, r) ==
  LET matches == VecQuery(vectors, r.userId, TextEmbedding(r.queryText),
                          r.topK)
      vectorIds == {matches[i].id : i \in 1..Len(matches)}
  IN IF Len(matches) = 0 THEN EmptyResult
     ELSE ContextResult(matches, GraphQuery(graph, vectorIds))

\* C32: a getMsgContext that follows a successful storeMessage returns what
\* a retrieval against the current vector and graph stores produces, also
\* when a result for the same arguments was cached before the store.
C32_FreshAfterStore ==
  [][(req.pc # "done" /\ req'.pc = "done" /\ req'.ok /\ req'.afterStore)
       => req'.result = C32_Retrieval(vecStore', graphStore', req')]_vars

\* C33: every graph-store session that getMsgContext, getSessionHistory or
\* storeMessage opens is eventually closed, exactly once, whether the
\* request succeeds or fails after opening it; a request served from a
\* cache and a getMsgContext without vector hits open no session.
C33_HasSession(c) ==
  calls[c].pc \in {"storeRun", "storeAnswer", "storeClose",
                   "histRun", "histAnswer", "histClose"}

C34_Outcome(r) == [ok |-> r.ok, result |-> IF r.ok THEN r.result ELSE Null]

C34_NoFailure(r) ==
  r.pc # "idle" => ~r.embedFailed /\ ~r.vecFailed /\ ~r.graphFailed
                   /\ r.error \in {"none", "parse"}

C34_CacheTransparent ==
  [][(req.pc # "done" /\ req'.pc = "done"
      /\ C34_NoFailure(req') /\ C34_NoFailure(prev'))
       => C34_Outcome(req')
            = getMsgContextUncached(vecStore', graphStore', req'.userId,
                                    req'.queryText, req'.topK)]_vars

\* The same for the requests that are not served an entry stored for
\* another query text.
C34_TransparentWithoutCollision ==
  [][(req.pc # "done" /\ req'.pc = "done"
      /\ C34_NoFailure(req') /\ C34_NoFailure(prev')
      /\ ~(req'.found /\ prev'.pc # "idle"
           /\ prev'.queryText # req'.queryText))
       => C34_Outcome(req')
            = getMsgContextUncached(vecStore', graphStore', req'.userId,
                                    req'.queryText, req'.topK)]_vars

\* C35: whenever a getMsgContext or a storeMessage on a new KnowledgeBase
\* gets its embedding and goes on to the vector store, pineconeIndex has
\* been assigned, however the constructor's initPineconeClient call and
\* the request interleave.
C35_IndexAssignedBeforeUse ==
  /\ [][(req.pc = "embedding" /\ req'.pc # "embedding" /\ ~req'.embedFailed)
          => pineconeIndex = "Index" /\ req'.pc = "vecQuery"]_vars
  /\ [][\A c \in Calls :
          (calls[c].pc = "storeEmbedding" /\ calls'[c].pc # "storeEmbedding"
           /\ ~(calls'[c].pc = "idle" /\ lastOp'.error = "embedding"))
            => pineconeIndex = "Index" /\ calls'[c].pc = "storeUpsert"]_vars

\* C36: storeMessage is all-or-nothing. When a call succeeds, the vector
\* store and the graph store both hold its message under the call's vector
\* id; when it fails, neither holds it and the session cache is as it was
\* when the call was made; between calls, every vector record has its
\* message in the graph store.
C36_VectorHolds(vectors, sessionId, vectorId) ==
  \E r \in vectors : r.id = vectorId /\ r.metadata.session_id = sessionId

C36_GraphHolds(graph, sessionId, vectorId) ==
  \E i \in 1..Len(graph) :
    /\ graph[i].sessionId = sessionId
    /\ \E j \in 1..Len(graph[i].nodes) : graph[i].nodes[j].vector_id = vectorId

C36_StoreCompletes(c) ==
  /\ calls[c].pc \in {"storeEmbedding", "storeUpsert", "storeClose"}
  /\ calls'[c].pc = "idle"

C36_AllOrNothing ==
  /\ [][\A c \in Calls :
          C36_StoreCompletes(c)
            => LET sessionId == lastOp'.sessionId
                   vectorId == VectorId(lastOp'.messageId)
               IN IF lastOp'.ok
                  THEN /\ C36_VectorHolds(vecStore', sessionId, vectorId)
                       /\ C36_GraphHolds(graphStore', sessionId, vectorId)
                  ELSE /\ ~C36_VectorHolds(vecStore', sessionId, vectorId)
                       /\ ~C36_GraphHolds(graphStore', sessionId, vectorId)
                       /\ hybCache' = calls[c].sessionCache]_vars
  /\ [](InFlight = 0
          => \A r \in vecStore :
               C36_GraphHolds(graphStore, r.metadata.session_id, r.id))

\* The same for the calls that succeed or fail before the upsert.
C36_AllOrNothingBeforeUpsert ==
  [][\A c \in Calls :
       (C36_StoreCompletes(c)
        /\ (lastOp'.ok \/ lastOp'.error \in {"embedding", "index", "vector"}))
         => LET sessionId == lastOp'.sessionId
                vectorId == VectorId(lastOp'.messageId)
            IN IF lastOp'.ok
               THEN /\ C36_VectorHolds(vecStore', sessionId, vectorId)
                    /\ C36_GraphHolds(graphStore', sessionId, vectorId)
               ELSE /\ ~C36_VectorHolds(vecStore', sessionId, vectorId)
                    /\ ~C36_GraphHolds(graphStore', sessionId, vectorId)
                    /\ hybCache' = calls[c].sessionCache]_vars

\* C37: in the SSE server every POST to /get-msg-context that is handled
\* is handled by a transport made for a connection of the client that
\* posted it, and no POST is handled while no transport exists.
C37_PostHandledByOwnTransport ==
  \A i \in 1..Len(posts) :
    /\ posts[i].handled => posts[i].transport.client = posts[i].client
    /\ posts[i].transport = NoTransport => ~posts[i].handled

\* The same for the second half alone: without a transport no POST is
\* handled.
C37_NoTransportNoHandling ==
  \A i \in 1..Len(posts) :
    posts[i].transport = NoTransport => ~posts[i].handled

=============================================================================
